---- MODULE Spec2Model ----
(***************************************************************************)
(* PlexRedisManager: the dedicated-node bookkeeping (DedicatedServer,      *)
(* DedicatedServers, MCSInstance) and the ServerGroup registry kept in the *)
(* shared cache (ServerGroup::create / delete, the port allocator).        *)
(*                                                                         *)
(* Strings are sequences of symbols; a symbol is one character, or a whole *)
(* word where the code only ever compares the word ("true", "US").         *)
(***************************************************************************)
EXTENDS Integers, Sequences, FiniteSets, TLC

VARIABLES
    servers,          \* DedicatedServers.servers: Vec<DedicatedServer>
    overflow_checks,  \* build profile: TRUE = arithmetic overflow panics, FALSE = it wraps
    panicked,         \* the process aborted on a panic
    ret,              \* the last call and what it returned
    issued,           \* history: numbers get_next_server_num returned that were then placed
    stale_calls,      \* history: calls made with a stale copy of a group record
    hashes,           \* cache: prefix -> the hash stored under servergroups.{prefix}
    sgset,            \* cache: the set stored under the key servergroups
    snapshot,         \* the MinecraftServer an MCSInstance keeps (`self` of update)
    status,           \* cache: <<region, name>> -> the value under serverstatus.minecraft.{region}.{name}
    now,              \* wall clock, milliseconds
    seen,             \* history: current_time of every snapshot the instance has stored
    probe,            \* the arguments handed to a function called on its own
    ctxs              \* the contexts running create side by side: where each is, what it read

statusVars == <<snapshot, status, now, seen>>
restVars == <<probe, ctxs>>

vars == <<servers, overflow_checks, panicked, ret, issued, stale_calls, hashes, sgset,
          snapshot, status, now, seen, probe, ctxs>>

----------------------------------------------------------------------------
(* Bounds of the model *)

MaxServerNum == 1       \* add_server / remove_server are called with numbers 0..MaxServerNum
MaxInstances == 2       \* instances a directly driven node holds at one time
MaxPlaced == 2          \* instances the placement engine holds at one time
MaxStaleCalls == 1      \* calls that pass a stale copy of a group record
MaxBlockNum == 12       \* largest server number a placement hands out in the block runs
MaxPortOffset == 22     \* port sections are taken in PortLo..PortLo + MaxPortOffset

----------------------------------------------------------------------------
(* Integer widths *)

U16Mod == 65536
I16Max == 32767
I16Min == -32768

\* `x as i16` for an unsigned x: two's complement reinterpretation
AsI16(x) == LET m == x % U16Mod IN IF m > I16Max THEN m - U16Mod ELSE m

InI16(x) == x >= I16Min /\ x <= I16Max

\* the value an i16 `+=` / `-=` leaves when overflow checks are off
WrapI16(x) == AsI16(x)

----------------------------------------------------------------------------
(* Text: decimal formatting and parsing *)

DigitChars == <<"0", "1", "2", "3", "4", "5", "6", "7", "8", "9">>

IsDigit(c) == \E i \in 1..10 : DigitChars[i] = c

DigitVal(c) == (CHOOSE i \in 1..10 : DigitChars[i] = c) - 1

\* usize / u16 / u8 `to_string()`
RECURSIVE ToDecimal(_)
ToDecimal(n) ==
    IF n < 10 THEN <<DigitChars[n + 1]>>
    ELSE ToDecimal(n \div 10) \o <<DigitChars[(n % 10) + 1]>>

RECURSIVE DigitsValue(_)
DigitsValue(s) ==
    IF s = <<>> THEN 0
    ELSE DigitsValue(SubSeq(s, 1, Len(s) - 1)) * 10 + DigitVal(s[Len(s)])

NoNum == -1

\* str::parse for an unsigned integer type: an optional '+', then one or more
\* digits; NoNum for anything else (the Err case)
ParseUnsigned(s) ==
    LET body == IF s # <<>> /\ s[1] = "+" THEN Tail(s) ELSE s
    IN IF body # <<>> /\ \A i \in 1..Len(body) : IsDigit(body[i])
       THEN DigitsValue(body)
       ELSE NoNum

\* str::split_once('-'): the part after the first dash, or NoSplit
NoSplit == <<"<none>">>

RestAfterFirstDash(name) ==
    IF \E i \in 1..Len(name) : name[i] = "-"
    THEN LET i == CHOOSE k \in 1..Len(name) :
                    name[k] = "-" /\ \A j \in 1..(k - 1) : name[j] # "-"
         IN SubSeq(name, i + 1, Len(name))
    ELSE NoSplit

----------------------------------------------------------------------------
(* MCSInstance *)

calculate_server_num(name) ==
    LET rest == RestAfterFirstDash(name)
        txt == IF rest = NoSplit THEN <<"0">> ELSE rest
        n == ParseUnsigned(txt)
    IN IF n = NoNum THEN 0 ELSE n

MCSInstance_new(name, group, port, region) ==
    [name |-> name, group |-> group, server_num |-> calculate_server_num(name),
     port |-> port, region |-> region]

get_server_num(mcs) == mcs.server_num

----------------------------------------------------------------------------
(* ServerGroup records used by the node model *)

MB == <<"M", "B">>
SB == <<"S", "B">>
TF == <<"T", "F">>
MIN == <<"M", "I", "N">>
C_4 == <<"C", "-", "4">>

ServerGroup(name, ram, cpu, port_section, region) ==
    [name |-> name, prefix |-> name, ram |-> ram, cpu |-> cpu,
     port_section |-> port_section, region |-> region,
     pvp |-> TRUE, host |-> <<>>, world_zip |-> <<"arcade.zip">>]

gMB == ServerGroup(MB, 512, 1, 25565, "US")
gSB == ServerGroup(SB, 1024, 2, 25580, "US")
gC4 == ServerGroup(C_4, 512, 1, 25600, "EU")
gTF == ServerGroup(TF, 40000, 1, 25650, "US")
\* a copy of MB read from the cache after its ram and cpu were edited
gMBstale == ServerGroup(MB, 1024, 2, 25565, "US")

\* the groups a single node is driven with, and the stale copy
NodeGroups == {gMB, gC4, gTF}
AllGroupRecords == NodeGroups \cup {gMBstale}
\* the groups the placement engine is driven with
PlacementGroups == {gMB, gSB, gC4}

\* two groups whose sections are 11 apart, the nearest the predicate allows
gMIN == ServerGroup(MIN, 512, 1, 25576, "US")
BlockGroups == {gMB, gMIN}

Groups == NodeGroups \cup PlacementGroups \cup BlockGroups
GroupNames == {g.name : g \in Groups}
GroupNamed(n) == CHOOSE g \in Groups : g.name = n

----------------------------------------------------------------------------
(* DedicatedServer *)

get_instances(ds, group) ==
    IF group.name \in DOMAIN ds.server_instances
    THEN ds.server_instances[group.name]
    ELSE <<>>

get_server_count(ds, group) == AsI16(Len(get_instances(ds, group)))

get_server_nums(ds, group) ==
    LET v == get_instances(ds, group)
    IN [i \in 1..Len(v) |-> get_server_num(v[i])]

Contains(seq, x) == \E i \in 1..Len(seq) : seq[i] = x

has_space_for(ds, group) ==
    ds.available_ram >= AsI16(group.ram) /\ ds.available_cpu >= AsI16(group.cpu)

\* Vec::push into the HashMap entry of the group, or insert of a new one-element Vec
PushInstance(ds, key, inst) ==
    [ds EXCEPT !.server_instances =
        IF key \in DOMAIN @ THEN [@ EXCEPT ![key] = Append(@, inst)]
        ELSE (key :> <<inst>>) @@ @]

\* Result of DedicatedServer::add_server on node ds: the node afterwards and
\* the value returned ("panic" when an overflow check aborts the call part way)
add_server(ds, group, server_num, checks) ==
    IF ~has_space_for(ds, group) THEN [ds |-> ds, res |-> "StorageError"]
    ELSE IF Contains(get_server_nums(ds, group), server_num)
    THEN [ds |-> ds, res |-> "DuplicateInstanceRunning"]
    ELSE
      LET port == group.port_section + (server_num % U16Mod)
      IN IF port >= U16Mod /\ checks THEN [ds |-> ds, res |-> "panic"]
         ELSE
           LET server_name == group.name \o <<"-">> \o ToDecimal(server_num)
               instance == MCSInstance_new(server_name, group.name,
                                           port % U16Mod, group.region)
               pushed == PushInstance(ds, group.name, instance)
               ram == ds.available_ram - AsI16(group.ram)
               cpu == ds.available_cpu - AsI16(group.cpu)
           IN IF ~InI16(ram) /\ checks THEN [ds |-> pushed, res |-> "panic"]
              ELSE IF ~InI16(cpu) /\ checks
              THEN [ds |-> [pushed EXCEPT !.available_ram = ram], res |-> "panic"]
              ELSE [ds |-> [pushed EXCEPT !.available_ram = WrapI16(ram),
                                          !.available_cpu = WrapI16(cpu)],
                    res |-> "Ok"]

\* vec.sort_by(server_num): a stable sort
RECURSIVE InsertByNum(_, _)
InsertByNum(x, sorted) ==
    IF sorted = <<>> THEN <<x>>
    ELSE IF get_server_num(x) <= get_server_num(Head(sorted)) THEN <<x>> \o sorted
    ELSE <<Head(sorted)>> \o InsertByNum(x, Tail(sorted))

RECURSIVE SortByNum(_)
SortByNum(v) ==
    IF v = <<>> THEN <<>> ELSE InsertByNum(Head(v), SortByNum(Tail(v)))

\* Vec::swap_remove(idx): the last element takes the place of the removed one
SwapRemove(v, idx) ==
    [i \in 1..(Len(v) - 1) |-> IF i = idx THEN v[Len(v)] ELSE v[i]]

\* remove_server that credits the capacity before it looks for the instance
remove_server_credit_first(ds, group, server_num, checks) ==
    IF group.name \notin DOMAIN ds.server_instances
    THEN [ds |-> ds, res |-> "ZeroInstancesRunning"]
    ELSE
      LET vec == SortByNum(ds.server_instances[group.name])
          sorted == [ds EXCEPT !.server_instances[group.name] = vec]
      IN IF ~\E i \in 1..Len(vec) : get_server_num(vec[i]) = server_num
         THEN [ds |-> [sorted EXCEPT !.available_ram = WrapI16(@ + AsI16(group.ram)),
                                     !.available_cpu = WrapI16(@ + AsI16(group.cpu))],
               res |-> "InstanceNotFound"]
         ELSE
           LET idx == CHOOSE i \in 1..Len(vec) :
                          /\ get_server_num(vec[i]) = server_num
                          /\ \A j \in 1..(i - 1) : get_server_num(vec[j]) # server_num
               removed == [ds EXCEPT !.server_instances[group.name] = SwapRemove(vec, idx)]
               ram == ds.available_ram + AsI16(group.ram)
               cpu == ds.available_cpu + AsI16(group.cpu)
           IN IF ~InI16(ram) /\ checks THEN [ds |-> removed, res |-> "panic"]
              ELSE IF ~InI16(cpu) /\ checks
              THEN [ds |-> [removed EXCEPT !.available_ram = ram], res |-> "panic"]
              ELSE [ds |-> [removed EXCEPT !.available_ram = WrapI16(ram),
                                           !.available_cpu = WrapI16(cpu)],
                    res |-> "Ok"]

\* Result of DedicatedServer::remove_server on node ds
remove_server(ds, group, server_num, checks) ==
    IF group.name \notin DOMAIN ds.server_instances
    THEN [ds |-> ds, res |-> "ZeroInstancesRunning"]
    ELSE
      LET vec == SortByNum(ds.server_instances[group.name])
          sorted == [ds EXCEPT !.server_instances[group.name] = vec]
      IN IF ~\E i \in 1..Len(vec) : get_server_num(vec[i]) = server_num
         THEN [ds |-> sorted, res |-> "InstanceNotFound"]
         ELSE
           LET idx == CHOOSE i \in 1..Len(vec) :
                          /\ get_server_num(vec[i]) = server_num
                          /\ \A j \in 1..(i - 1) : get_server_num(vec[j]) # server_num
               removed == [ds EXCEPT !.server_instances[group.name] = SwapRemove(vec, idx)]
               ram == ds.available_ram + AsI16(group.ram)
               cpu == ds.available_cpu + AsI16(group.cpu)
           IN IF ~InI16(ram) /\ checks THEN [ds |-> removed, res |-> "panic"]
              ELSE IF ~InI16(cpu) /\ checks
              THEN [ds |-> [removed EXCEPT !.available_ram = ram], res |-> "panic"]
              ELSE [ds |-> [removed EXCEPT !.available_ram = WrapI16(ram),
                                           !.available_cpu = WrapI16(cpu)],
                    res |-> "Ok"]

----------------------------------------------------------------------------
(* DedicatedServers *)

\* Ord for DedicatedServer: (available_ram, available_cpu), lexicographic
cmp_le(a, b) ==
    \/ a.available_ram < b.available_ram
    \/ a.available_ram = b.available_ram /\ a.available_cpu <= b.available_cpu

RECURSIVE InsertServer(_, _)
InsertServer(x, sorted) ==
    IF sorted = <<>> THEN <<x>>
    ELSE IF cmp_le(x, Head(sorted)) THEN <<x>> \o sorted
    ELSE <<Head(sorted)>> \o InsertServer(x, Tail(sorted))

\* a sort that keeps one node of those comparing equal
RECURSIVE sort_servers_unique(_)
sort_servers_unique(s) ==
    IF s = <<>> THEN <<>>
    ELSE LET rest == sort_servers_unique(Tail(s))
         IN IF \E i \in 1..Len(rest) : cmp_le(Head(s), rest[i]) /\ cmp_le(rest[i], Head(s))
            THEN rest
            ELSE InsertServer(Head(s), rest)

\* self.servers.sort(): stable, ascending
RECURSIVE sort_servers(_)
sort_servers(s) ==
    IF s = <<>> THEN <<>> ELSE InsertServer(Head(s), sort_servers(Tail(s)))

\* BestFrom without the space test
RECURSIVE BestFromAnySpace(_, _, _, _)
BestFromAnySpace(s, group, i, best) ==
    IF i > Len(s) THEN best
    ELSE IF s[i].region # group.region
    THEN BestFromAnySpace(s, group, i + 1, best)
    ELSE IF best # 0 /\ get_server_count(s[best], group) < get_server_count(s[i], group)
    THEN BestFromAnySpace(s, group, i + 1, best)
    ELSE BestFromAnySpace(s, group, i + 1, i)

\* BestFrom that keeps the earlier candidate when the counts are equal
RECURSIVE BestFromEarlierTie(_, _, _, _)
BestFromEarlierTie(s, group, i, best) ==
    IF i > Len(s) THEN best
    ELSE IF s[i].region # group.region \/ ~has_space_for(s[i], group)
    THEN BestFromEarlierTie(s, group, i + 1, best)
    ELSE IF best # 0 /\ get_server_count(s[best], group) <= get_server_count(s[i], group)
    THEN BestFromEarlierTie(s, group, i + 1, best)
    ELSE BestFromEarlierTie(s, group, i + 1, i)

\* BestFrom with the count comparison turned round
RECURSIVE BestFromReversed(_, _, _, _)
BestFromReversed(s, group, i, best) ==
    IF i > Len(s) THEN best
    ELSE IF s[i].region # group.region \/ ~has_space_for(s[i], group)
    THEN BestFromReversed(s, group, i + 1, best)
    ELSE IF best # 0 /\ get_server_count(s[best], group) > get_server_count(s[i], group)
    THEN BestFromReversed(s, group, i + 1, best)
    ELSE BestFromReversed(s, group, i + 1, i)

\* the loop of get_best_dedicated_server over the sorted list: the index of
\* best_server after nodes i..Len(s) were visited, 0 for None
RECURSIVE BestFrom(_, _, _, _)
BestFrom(s, group, i, best) ==
    IF i > Len(s) THEN best
    ELSE IF s[i].region # group.region \/ ~has_space_for(s[i], group)
    THEN BestFrom(s, group, i + 1, best)
    ELSE IF best # 0 /\ get_server_count(s[best], group) < get_server_count(s[i], group)
    THEN BestFrom(s, group, i + 1, best)
    ELSE BestFrom(s, group, i + 1, i)

\* the index, in the sorted list, of the node get_best_dedicated_server returns
get_best_dedicated_server(s, group) == BestFrom(sort_servers(s), group, 1, 0)

Max(S) == CHOOSE x \in S : \A y \in S : y <= x

\* get_highest_server_num that looks at the first node only
get_highest_server_num_first_node(s, group) ==
    LET nums == IF s = <<>> THEN <<>> ELSE get_server_nums(s[1], group)
    IN IF nums = <<>> THEN 0 ELSE Max({nums[i] : i \in 1..Len(nums)})

get_highest_server_num(s, group) ==
    LET perNode(ds) ==
            LET nums == get_server_nums(ds, group)
            IN IF nums = <<>> THEN 0 ELSE Max({nums[i] : i \in 1..Len(nums)})
    IN IF s = <<>> THEN 0 ELSE Max({perNode(s[i]) : i \in 1..Len(s)})

get_next_server_num(s, group) == get_highest_server_num(s, group) + 1

----------------------------------------------------------------------------
(* The node collection as loaded from config.toml *)

SmallNode == [cpu |-> 2, ram |-> 1024]
BigNode == [cpu |-> 4, ram |-> 2048]
NodeCaps == {SmallNode, BigNode}

NoInstances == [n \in {} |-> <<>>]

\* Config::get_config: max_* := available_*, no instances
dedicated_server_with_defaults(name, region, cap) ==
    [name |-> name, region |-> region,
     available_cpu |-> cap.cpu, available_ram |-> cap.ram,
     max_cpu |-> cap.cpu, max_ram |-> cap.ram,
     server_instances |-> NoInstances]

NoCall == [op |-> "none", node |-> "-", group |-> <<>>, num |-> NoNum, res |-> "-"]

\* no instance status is kept or cached
NoSnapshot == [name |-> <<>>, group |-> <<>>, current_time |-> 0, player_count |-> 0]
NoStatus == [k \in {} |-> NoSnapshot]
InitNoStatus ==
    /\ snapshot = NoSnapshot
    /\ status = NoStatus
    /\ now = 0
    /\ seen = {}

\* no function is called on its own, no context is inside create
NoProbe == <<>>
NoContexts == <<>>
InitNoRest ==
    /\ probe = NoProbe
    /\ ctxs = NoContexts

EmptyCache == [p \in {} |-> <<>>]

\* what every specification starts from besides its node list
InitRest ==
    /\ overflow_checks \in BOOLEAN
    /\ panicked = FALSE
    /\ ret = NoCall
    /\ issued = [n \in GroupNames |-> {}]
    /\ stale_calls = 0
    /\ hashes = EmptyCache
    /\ sgset = {}
    /\ InitNoStatus
    /\ InitNoRest

\* one node, driven directly through add_server / remove_server
InitNodes ==
    /\ \E c \in NodeCaps, r \in {"US", "EU"} :
          servers = << dedicated_server_with_defaults("N1", r, c) >>
    /\ InitRest

\* three nodes, driven through the placement engine
InitPlacement ==
    /\ servers = << dedicated_server_with_defaults("N1", "US", BigNode),
                    dedicated_server_with_defaults("N2", "US", SmallNode),
                    dedicated_server_with_defaults("N3", "EU", SmallNode) >>
    /\ InitRest

Stale(group) == IF group = gMBstale THEN 1 ELSE 0

TotalInstances(s) ==
    LET RECURSIVE Sum(_)
        Sum(i) == IF i = 0 THEN 0
                  ELSE Sum(i - 1) +
                       LET m == s[i].server_instances
                           RECURSIVE SumKeys(_)
                           SumKeys(K) == IF K = {} THEN 0
                                         ELSE LET k == CHOOSE x \in K : TRUE
                                              IN Len(m[k]) + SumKeys(K \ {k})
                       IN SumKeys(DOMAIN m)
    IN Sum(Len(s))

\* a caller runs ds.add_server(group, server_num) on the node at position i
AddServer(i, group, server_num) ==
    /\ ~panicked
    /\ LET r == add_server(servers[i], group, server_num, overflow_checks)
       IN /\ r.res = "Ok" => TotalInstances(servers) < MaxInstances
          /\ servers' = [servers EXCEPT ![i] = r.ds]
          /\ panicked' = (r.res = "panic")
          /\ ret' = [op |-> "add_server", node |-> servers[i].name,
                     group |-> group.name, num |-> server_num, res |-> r.res]
    /\ stale_calls' = stale_calls + Stale(group)
    /\ stale_calls' <= MaxStaleCalls
    /\ UNCHANGED <<overflow_checks, issued, hashes, sgset, statusVars, restVars>>

\* a caller runs ds.remove_server(group, server_num) on the node at position i
RemoveServer(i, group, server_num) ==
    /\ ~panicked
    /\ LET r == remove_server(servers[i], group, server_num, overflow_checks)
       IN /\ servers' = [servers EXCEPT ![i] = r.ds]
          /\ panicked' = (r.res = "panic")
          /\ ret' = [op |-> "remove_server", node |-> servers[i].name,
                     group |-> group.name, num |-> server_num, res |-> r.res]
    /\ stale_calls' = stale_calls + Stale(group)
    /\ stale_calls' <= MaxStaleCalls
    /\ UNCHANGED <<overflow_checks, issued, hashes, sgset, statusVars, restVars>>

\* a caller runs servers.get_best_dedicated_server(group)
GetBestDedicatedServer(group) ==
    /\ ~panicked
    /\ LET sorted == sort_servers(servers)
           best == get_best_dedicated_server(servers, group)
       IN /\ servers' = sorted
          /\ ret' = [op |-> "get_best_dedicated_server",
                     node |-> IF best = 0 THEN "-" ELSE sorted[best].name,
                     group |-> group.name, num |-> NoNum,
                     res |-> IF best = 0 THEN "None" ELSE "Some"]
    /\ UNCHANGED <<overflow_checks, panicked, issued, stale_calls, hashes, sgset, statusVars, restVars>>

\* a caller runs servers.get_next_server_num(group)
GetNextServerNum(group) ==
    /\ ~panicked
    /\ ret' = [op |-> "get_next_server_num", node |-> "-", group |-> group.name,
               num |-> get_next_server_num(servers, group), res |-> "Ok"]
    /\ UNCHANGED <<servers, overflow_checks, panicked, issued, stale_calls, hashes, sgset, statusVars, restVars>>

\* the composite action of the placement engine:
\* get_next_server_num, get_best_dedicated_server, add_server on that node
Place(group) ==
    /\ ~panicked
    /\ LET server_num == get_next_server_num(servers, group)
           sorted == sort_servers(servers)
           best == get_best_dedicated_server(servers, group)
       IN IF best = 0
          THEN /\ servers' = sorted
               /\ ret' = [op |-> "place", node |-> "-", group |-> group.name,
                          num |-> server_num, res |-> "None"]
               /\ UNCHANGED <<panicked, issued>>
          ELSE LET r == add_server(sorted[best], group, server_num, overflow_checks)
               IN /\ r.res = "Ok" => TotalInstances(servers) < MaxPlaced
                  /\ servers' = [sorted EXCEPT ![best] = r.ds]
                  /\ panicked' = (r.res = "panic")
                  /\ issued' = IF r.res = "Ok"
                               THEN [issued EXCEPT ![group.name] = @ \cup {server_num}]
                               ELSE issued
                  /\ ret' = [op |-> "place", node |-> sorted[best].name,
                             group |-> group.name, num |-> server_num, res |-> r.res]
    /\ stale_calls' = stale_calls + Stale(group)
    /\ stale_calls' <= MaxStaleCalls
    /\ UNCHANGED <<overflow_checks, hashes, sgset, statusVars, restVars>>

NextNodes ==
    \/ \E i \in 1..Len(servers), g \in AllGroupRecords, n \in 0..MaxServerNum :
          AddServer(i, g, n)
    \/ \E i \in 1..Len(servers), g \in AllGroupRecords, n \in 0..MaxServerNum :
          RemoveServer(i, g, n)

SpecNodes == InitNodes /\ [][NextNodes]_vars

\* one node, with remove_server also asked for a number no add_server gave
NextNodeErrors ==
    \/ \E i \in 1..Len(servers), g \in AllGroupRecords, n \in 0..MaxServerNum :
          AddServer(i, g, n)
    \/ \E i \in 1..Len(servers), g \in AllGroupRecords, n \in 0..(MaxServerNum + 1) :
          RemoveServer(i, g, n)

SpecNodeErrors == InitNodes /\ [][NextNodeErrors]_vars

NextPlacement ==
    \/ \E g \in PlacementGroups : Place(g)
    \/ \E i \in 1..Len(servers), g \in PlacementGroups, n \in 0..(MaxPlaced + 1) :
          Contains(get_server_nums(servers[i], g), n) /\ RemoveServer(i, g, n)
    \/ \E g \in PlacementGroups : GetBestDedicatedServer(g)
    \/ \E g \in PlacementGroups : GetNextServerNum(g)

SpecPlacement == InitPlacement /\ [][NextPlacement]_vars

\* one node, two groups with sections 11 apart, numbers running past the block
InitBlocks ==
    /\ servers = << dedicated_server_with_defaults("N1", "US", BigNode) >>
    /\ InitRest

NextBlocks ==
    \/ \E g \in BlockGroups :
          get_next_server_num(servers, g) <= MaxBlockNum /\ Place(g)
    \/ \E i \in 1..Len(servers), g \in BlockGroups, n \in 1..MaxBlockNum :
          Contains(get_server_nums(servers[i], g), n) /\ RemoveServer(i, g, n)

SpecBlocks == InitBlocks /\ [][NextBlocks]_vars

----------------------------------------------------------------------------
(* GameOptions: the port sections *)

PortLo == 25565         \* lowest section rnd_port draws
RerollLo == 25566       \* lowest section get_random_port_section draws
PortHi == 26001         \* both draw below this
BlockWidth == 10

\* the sections the model draws from
PortWindow == {q \in PortLo..(PortLo + MaxPortOffset) : q < PortHi}

\* rng.gen_range(25566..26001), as far as the window reaches
RerollRange == {q \in PortWindow : q >= RerollLo}

AddU16(a, b) == (a + b) % U16Mod

\* the comparison of the older rnd_port: `<` on the upper side of the first
\* clause, no clause for equal sections
check_port_section_conflicts_one_sided(port_section, cached_ports) ==
    \E cached_port \in cached_ports :
        \/ port_section < cached_port /\ cached_port < AddU16(port_section, BlockWidth)
        \/ cached_port < port_section /\ port_section <= AddU16(cached_port, BlockWidth)

\* check_port_section_conflicts with a `<` for the first `<=`
check_port_section_conflicts_strict(port_section, cached_ports) ==
    \E cached_port \in cached_ports :
        \/ port_section < cached_port /\ cached_port < AddU16(port_section, BlockWidth)
        \/ cached_port < port_section /\ port_section <= AddU16(cached_port, BlockWidth)
        \/ cached_port = port_section

check_port_section_conflicts(port_section, cached_ports) ==
    \E cached_port \in cached_ports :
        \/ port_section < cached_port /\ cached_port <= AddU16(port_section, BlockWidth)
        \/ cached_port < port_section /\ port_section <= AddU16(cached_port, BlockWidth)
        \/ cached_port = port_section

\* ---- the predicate called on its own ----
\* the sections handed to the predicate: the low window and the top of the range
Sections == PortWindow \cup {PortHi - 1, PortHi - 1 - BlockWidth, PortHi - 2 - BlockWidth}

ProbePorts(port_section, cached_port) == [port_section |-> port_section, cached_port |-> cached_port]

\* GameOptions::check_port_section_conflicts(probe.port_section, [probe.cached_port])
CheckPortSectionConflicts ==
    /\ probe # NoProbe
    /\ ret = NoCall
    /\ ret' = [op |-> "check_port_section_conflicts", node |-> "-", group |-> <<>>,
               num |-> probe.port_section,
               res |-> IF check_port_section_conflicts(probe.port_section, {probe.cached_port})
                       THEN "true" ELSE "false"]
    /\ UNCHANGED <<servers, overflow_checks, panicked, issued, stale_calls, hashes, sgset,
                   statusVars, restVars>>

\* the same call with the two sections swapped
CheckPortSectionConflictsSwapped ==
    /\ probe # NoProbe
    /\ ret = NoCall
    /\ ret' = [op |-> "check_port_section_conflicts", node |-> "-", group |-> <<>>,
               num |-> probe.cached_port,
               res |-> IF check_port_section_conflicts(probe.cached_port, {probe.port_section})
                       THEN "true" ELSE "false"]
    /\ UNCHANGED <<servers, overflow_checks, panicked, issued, stale_calls, hashes, sgset,
                   statusVars, restVars>>

NextPredicate == CheckPortSectionConflicts \/ CheckPortSectionConflictsSwapped

InitPredicate ==
    /\ servers = <<>>
    /\ overflow_checks \in BOOLEAN
    /\ panicked = FALSE
    /\ ret = NoCall
    /\ issued = [n \in GroupNames |-> {}]
    /\ stale_calls = 0
    /\ hashes = EmptyCache
    /\ sgset = {}
    /\ InitNoStatus
    /\ probe \in {ProbePorts(port_section, cached_port) :
                      port_section \in Sections, cached_port \in Sections}
    /\ ctxs = NoContexts

SpecPredicate == InitPredicate /\ [][NextPredicate]_vars


----------------------------------------------------------------------------
(* ServerGroup codec: the string map kept in the cache *)

EmptyMap == [k \in {} |-> <<>>]

BoolText(b) == IF b THEN <<"true">> ELSE <<"false">>

\* to_hashmap leaving out the ram field when it has from_game's value
to_hashmap_sparse(g) ==
    LET keys == {"name", "prefix", "cpu", "portSection", "worldZip", "host", "pvp", "region"}
                   \cup (IF g.ram = 512 THEN {} ELSE {"ram"})
    IN [k \in keys |->
          CASE k = "name" -> g.name
            [] k = "prefix" -> g.prefix
            [] k = "ram" -> ToDecimal(g.ram)
            [] k = "cpu" -> ToDecimal(g.cpu)
            [] k = "portSection" -> ToDecimal(g.port_section)
            [] k = "worldZip" -> g.world_zip
            [] k = "host" -> g.host
            [] k = "pvp" -> BoolText(g.pvp)
            [] k = "region" -> <<g.region>>]

\* to_hashmap writes 48 keys; the model keeps one or more of each kind
\* from_hashmap reads (the name and prefix, u16, u8, required string, optional
\* string, bool, region); the others are written and read as their kind is
to_hashmap(g) ==
    [k \in {"name", "prefix", "ram", "cpu", "portSection", "worldZip", "host",
            "pvp", "region"} |->
        CASE k = "name" -> g.name
          [] k = "prefix" -> g.prefix
          [] k = "ram" -> ToDecimal(g.ram)
          [] k = "cpu" -> ToDecimal(g.cpu)
          [] k = "portSection" -> ToDecimal(g.port_section)
          [] k = "worldZip" -> g.world_zip
          [] k = "host" -> g.host
          [] k = "pvp" -> BoolText(g.pvp)
          [] k = "region" -> <<g.region>>]

U8Max == 255
U16Max == 65535

\* parse_u16 / parse_u8: NoNum when the key is missing, the text is no number
\* or the number does not fit
parse_uint(map, key, max) ==
    IF key \notin DOMAIN map THEN NoNum
    ELSE LET n == ParseUnsigned(map[key]) IN IF n = NoNum \/ n > max THEN NoNum ELSE n

\* parse_bool_or_default: "err" for anything but true / false / null / empty
parse_bool_or_default(map, key) ==
    LET v == IF key \in DOMAIN map THEN map[key] ELSE <<>>
    IN IF v = <<"true">> THEN "true"
       ELSE IF v = <<"false">> \/ v = <<"null">> \/ v = <<>> THEN "false"
       ELSE "err"

\* parse_optional_str that takes every value for absent
parse_optional_str_none(map, key) == <<>>

\* parse_optional_str: None (the empty text) for a missing, empty or "null" value
parse_optional_str(map, key) ==
    IF key \in DOMAIN map /\ map[key] # <<>> /\ map[key] # <<"null">> THEN map[key] ELSE <<>>

\* Region::try_from of the region value, "US" when the key is missing
parse_region(map) ==
    LET v == IF "region" \in DOMAIN map THEN map["region"] ELSE <<"US">>
    IN IF v = <<"US">> \/ v = <<>> THEN "US"
       ELSE IF v = <<"EU">> THEN "EU"
       ELSE IF v = <<"ALL">> THEN "ALL"
       ELSE "err"

ParseErr == [kind |-> "Err"]
ParsePanic == [kind |-> "panic"]

\* ServerGroup::from_hashmap: Ok with the group, Err, or the assert_eq! panic
from_hashmap(map) ==
    IF DOMAIN map = {} THEN ParseErr
    ELSE IF "name" \notin DOMAIN map THEN ParseErr
    ELSE IF "prefix" \notin DOMAIN map THEN ParseErr
    ELSE IF map["prefix"] # map["name"] THEN ParsePanic
    ELSE
      LET ram == parse_uint(map, "ram", U16Max)
          cpu == parse_uint(map, "cpu", U8Max)
          port_section == parse_uint(map, "portSection", U16Max)
          pvp == parse_bool_or_default(map, "pvp")
          region == parse_region(map)
      IN IF \/ ram = NoNum \/ cpu = NoNum \/ port_section = NoNum
            \/ "worldZip" \notin DOMAIN map
            \/ pvp = "err" \/ region = "err"
         THEN ParseErr
         ELSE [kind |-> "Ok",
               group |-> [name |-> map["name"], prefix |-> map["name"],
                          ram |-> ram, cpu |-> cpu, port_section |-> port_section,
                          region |-> region, pvp |-> (pvp = "true"),
                          host |-> parse_optional_str(map, "host"),
                          world_zip |-> map["worldZip"]]]

----------------------------------------------------------------------------
(* The codec called on its own *)

\* valid groups: name equal to prefix, host absent or a non-empty text
ValidGroups ==
    {[name |-> n, prefix |-> n, ram |-> ram, cpu |-> cpu, port_section |-> port,
      region |-> region, pvp |-> pvp, host |-> host, world_zip |-> <<"arcade.zip">>] :
        n \in {MB, C_4}, ram \in {0, 512, U16Max}, cpu \in {1, U8Max},
        port \in {PortLo, PortHi - 1}, region \in {"US", "EU", "ALL"},
        pvp \in BOOLEAN, host \in {<<>>, <<"h">>}}

\* maps that no to_hashmap wrote: each way of being malformed
MalformedMaps ==
    LET wf == to_hashmap(gMB)
    IN { EmptyMap,
         [k \in (DOMAIN wf) \ {"name"} |-> wf[k]],
         [k \in (DOMAIN wf) \ {"prefix"} |-> wf[k]],
         [k \in (DOMAIN wf) \ {"ram"} |-> wf[k]],
         [k \in (DOMAIN wf) \ {"worldZip"} |-> wf[k]],
         [wf EXCEPT !["ram"] = <<"6", "5", "5", "3", "6">>],
         [wf EXCEPT !["cpu"] = <<"2", "5", "6">>],
         [wf EXCEPT !["portSection"] = <<"-", "1">>],
         [wf EXCEPT !["pvp"] = <<"maybe">>],
         [wf EXCEPT !["region"] = <<"ASIA">>],
         [wf EXCEPT !["prefix"] = <<"X">>] }

NoGroup == <<>>
NoMap == <<"<none>">>
NotParsed == [kind |-> "-"]

ProbeCodec(group, map, parsed) == [group |-> group, map |-> map, parsed |-> parsed]

\* group.to_hashmap()
ToHashmap ==
    /\ probe # NoProbe
    /\ probe.group # NoGroup
    /\ probe.map = NoMap
    /\ probe' = [probe EXCEPT !.map = to_hashmap(probe.group)]
    /\ UNCHANGED <<servers, overflow_checks, panicked, ret, issued, stale_calls, hashes, sgset,
                   statusVars, ctxs>>

\* ServerGroup::from_hashmap(map)
FromHashmap ==
    /\ probe # NoProbe
    /\ probe.map # NoMap
    /\ probe.parsed = NotParsed
    /\ probe' = [probe EXCEPT !.parsed = from_hashmap(probe.map)]
    /\ panicked' = (from_hashmap(probe.map).kind = "panic")
    /\ UNCHANGED <<servers, overflow_checks, ret, issued, stale_calls, hashes, sgset,
                   statusVars, ctxs>>

NextCodec == ToHashmap \/ FromHashmap

InitCodec ==
    /\ servers = <<>>
    /\ overflow_checks \in BOOLEAN
    /\ panicked = FALSE
    /\ ret = NoCall
    /\ issued = [n \in GroupNames |-> {}]
    /\ stale_calls = 0
    /\ hashes = EmptyCache
    /\ sgset = {}
    /\ InitNoStatus
    /\ probe \in {ProbeCodec(g, NoMap, NotParsed) : g \in ValidGroups}
                  \cup {ProbeCodec(NoGroup, m, NotParsed) : m \in MalformedMaps}
    /\ ctxs = NoContexts

SpecCodec == InitCodec /\ [][NextCodec]_vars

----------------------------------------------------------------------------
(* Group registry: servergroups.{prefix} hashes and the set servergroups *)

\* HGETALL servergroups.{prefix}: the empty map for a missing key
HGETALL(h, prefix) == IF prefix \in DOMAIN h THEN h[prefix] ELSE EmptyMap

\* HSET key field value ...: the fields given replace or join those stored
HSET(h, prefix, params) ==
    (prefix :> (params @@ HGETALL(h, prefix))) @@ h

\* DEL key
DEL(h, prefix) == [q \in (DOMAIN h) \ {prefix} |-> h[q]]

get_server_group(h, prefix) == from_hashmap(HGETALL(h, prefix))

is_cached(h, group) == get_server_group(h, group.prefix).kind = "Ok"

\* get_server_groups: KEYS servergroups.* and a fetch of each, stopped by the
\* first hash that does not parse. KEYS gives no order, so which failure comes
\* first is open. The set of outcomes.
get_server_groups(h) ==
    LET fetched == {get_server_group(h, q) : q \in DOMAIN h}
        failed == {r \in fetched : r.kind # "Ok"}
    IN IF failed = {} THEN {[kind |-> "Ok", groups |-> {r.group : r \in fetched}]}
       ELSE {[kind |-> r.kind] : r \in failed}

\* get_all_other_port_sections: the filter_map keeps every group's section,
\* whatever its name
get_all_other_port_sections(h, group) ==
    {IF l.kind = "Ok"
     THEN [kind |-> "Ok", ports |-> {sg.port_section : sg \in l.groups}]
     ELSE l : l \in get_server_groups(h)}

\* reset_port_section_if_invalid: the outcomes, each with the section the
\* group is left with; the loop rerolls until a section does not conflict
reset_port_section_if_invalid(h, group) ==
    UNION {
        IF l.kind # "Ok" THEN {[kind |-> l.kind, port |-> group.port_section]}
        ELSE IF ~check_port_section_conflicts(group.port_section, l.ports)
        THEN {[kind |-> "Ok", port |-> group.port_section]}
        ELSE {[kind |-> "Ok", port |-> q] :
                q \in {r \in RerollRange : ~check_port_section_conflicts(r, l.ports)}}
        : l \in get_all_other_port_sections(h, group)}

Outcome(kind, h, s, port) == [kind |-> kind, hashes |-> h, sgset |-> s, port |-> port]

\* create that writes the caller's map although the hash is there
create_overwrite(h, s, group) ==
    LET sg == get_server_group(h, group.prefix)
    IN IF sg.kind = "panic" THEN {Outcome("panic", h, s, group.port_section)}
       ELSE {IF o.kind = "Ok"
             THEN Outcome("Ok",
                          HSET(h, group.prefix,
                               to_hashmap([group EXCEPT !.port_section = o.port])),
                          s \cup {group.prefix}, o.port)
             ELSE Outcome(o.kind, h, s, o.port)
             : o \in reset_port_section_if_invalid(DEL(h, group.prefix), group)}

\* create that forgets the SADD after the HSET
create_no_sadd(h, s, group) ==
    LET sg == get_server_group(h, group.prefix)
    IN IF sg.kind = "panic" THEN {Outcome("panic", h, s, group.port_section)}
       ELSE IF sg.kind = "Ok"
       THEN {Outcome("Ok", h, s \cup {group.prefix}, group.port_section)}
       ELSE {IF o.kind = "Ok"
             THEN Outcome("Ok",
                          HSET(h, group.prefix,
                               to_hashmap([group EXCEPT !.port_section = o.port])),
                          s, o.port)
             ELSE Outcome(o.kind, h, s, o.port)
             : o \in reset_port_section_if_invalid(h, group)}

\* ServerGroup::create: the outcomes (kind Ok / Err / panic, the cache
\* afterwards, the caller's port_section afterwards)
create(h, s, group) ==
    LET sg == get_server_group(h, group.prefix)
    IN IF sg.kind = "panic" THEN {Outcome("panic", h, s, group.port_section)}
       ELSE IF sg.kind = "Ok"
       THEN {Outcome("Ok", h, s \cup {group.prefix}, group.port_section)}
       ELSE {IF o.kind = "Ok"
             THEN Outcome("Ok",
                          HSET(h, group.prefix,
                               to_hashmap([group EXCEPT !.port_section = o.port])),
                          s \cup {group.prefix}, o.port)
             ELSE Outcome(o.kind, h, s, o.port)
             : o \in reset_port_section_if_invalid(h, group)}

\* ServerGroup::delete
delete(h, s, group) ==
    LET sg == get_server_group(h, group.prefix)
    IN IF sg.kind = "panic" THEN Outcome("panic", h, s, group.port_section)
       ELSE Outcome("Ok",
                    IF is_cached(h, group) THEN DEL(h, group.prefix) ELSE h,
                    s \ {group.prefix}, group.port_section)

----------------------------------------------------------------------------
(* The registry driven by one context *)

Prefixes == {MB, SB, TF}

\* the groups callers hand to create: a block's base, a section inside the
\* block (with another ram), the last conflicting section and the first free one
CallerGroup(q, port) ==
    ServerGroup(q, IF port = PortLo + 5 THEN 1024 ELSE 512, 1, port, "US")

CallerPorts == {PortLo, PortLo + 5, PortLo + BlockWidth, PortLo + BlockWidth + 1}

Callers == {CallerGroup(q, port) : q \in Prefixes, port \in CallerPorts \cap PortWindow}

\* delete reads nothing of the group but its prefix
Deleters == {CallerGroup(q, PortLo) : q \in Prefixes}

CacheCall(op, group, kind, port) ==
    [op |-> op, node |-> "-", group |-> group.prefix, num |-> port, res |-> kind]

NoPort == NoNum

Create(group) ==
    /\ ~panicked
    /\ \E o \in create(hashes, sgset, group) :
          /\ hashes' = o.hashes
          /\ sgset' = o.sgset
          /\ panicked' = (o.kind = "panic")
          /\ ret' = CacheCall("create", group, o.kind, o.port)
    /\ UNCHANGED <<servers, overflow_checks, issued, stale_calls, statusVars, restVars>>

Delete(group) ==
    /\ ~panicked
    /\ LET o == delete(hashes, sgset, group)
       IN /\ hashes' = o.hashes
          /\ sgset' = o.sgset
          /\ panicked' = (o.kind = "panic")
          /\ ret' = CacheCall("delete", group, o.kind, NoPort)
    /\ UNCHANGED <<servers, overflow_checks, issued, stale_calls, statusVars, restVars>>

NextCache ==
    \/ \E g \in Callers : Create(g)
    \/ \E g \in Deleters : Delete(g)

\* no registry operation reaches an arithmetic overflow on sections below
\* PortHi, so one build profile stands for both
InitCacheRest ==
    /\ servers = <<>>
    /\ overflow_checks = FALSE
    /\ panicked = FALSE
    /\ ret = NoCall
    /\ issued = [n \in GroupNames |-> {}]
    /\ stale_calls = 0
    /\ InitNoStatus
    /\ InitNoRest

\* an empty cache
InitFresh ==
    /\ hashes = EmptyCache
    /\ sgset = {}
    /\ InitCacheRest

SpecFresh == InitFresh /\ [][NextCache]_vars

\* eliminate_port_collisions on a group the caller holds: the cache is read,
\* the caller's group is left with the section shown in ret
ProbeGroup(group) == [group |-> group]

EliminatePortCollisions(group) ==
    /\ ~panicked
    /\ \E o \in reset_port_section_if_invalid(hashes, group) :
          /\ panicked' = (o.kind = "panic")
          /\ ret' = CacheCall("eliminate_port_collisions", group, o.kind, o.port)
    /\ probe' = ProbeGroup(group)
    /\ UNCHANGED <<servers, overflow_checks, issued, stale_calls, hashes, sgset,
                   statusVars, ctxs>>

\* what other writers may have left under servergroups.{q}
WithoutKey(map, key) == [k \in (DOMAIN map) \ {key} |-> map[k]]

StoredHashes(q) ==
    LET wf == to_hashmap(CallerGroup(q, PortLo))
    IN { wf,
         to_hashmap(CallerGroup(q, PortLo + 5)),
         WithoutKey(wf, "ram"),
         [wf EXCEPT !["pvp"] = <<"maybe">>],
         [wf EXCEPT !["prefix"] = <<"X">>] }

StoredPrefixes == {MB, SB}

\* a cache shared with other writers: any hashes, any set
InitRegistry ==
    /\ \E present \in SUBSET StoredPrefixes :
          hashes \in {h \in [present -> UNION {StoredHashes(q) : q \in present}] :
                         \A q \in present : h[q] \in StoredHashes(q)}
    /\ sgset \in SUBSET Prefixes
    /\ InitCacheRest

SpecRegistry == InitRegistry /\ [][NextCache]_vars

\* eliminate_port_collisions against a cache that holds up to two groups
NextReconcile == \E g \in Callers : EliminatePortCollisions(g)

InitReconcile ==
    /\ \E present \in SUBSET StoredPrefixes :
          /\ hashes \in {h \in [present -> UNION {StoredHashes(q) : q \in present}] :
                            \A q \in present : h[q] \in StoredHashes(q)}
          /\ sgset = present
    /\ InitCacheRest

SpecReconcile == InitReconcile /\ [][NextReconcile]_vars

----------------------------------------------------------------------------
(* load_existing_cache and GenericServer::to_server_group *)

\* ServerGroup::load_existing_cache: `cached` is None for a hash that is
\* missing or does not parse; the if on it returns nothing, so the unwrap that
\* follows is reached and aborts. The outcome and the caller's group afterwards.
load_existing_cache(h, group) ==
    LET cached == get_server_group(h, group.prefix)
    IN IF cached.kind = "Ok" THEN [kind |-> "Ok", group |-> cached.group]
       ELSE [kind |-> "panic", group |-> group]

\* GenericServer::to_server_group for a server whose template is `group`:
\* eliminate_port_collisions, then load_existing_cache, then Ok(Some(group))
to_server_group(h, group) ==
    UNION {
        IF o.kind # "Ok" THEN {[kind |-> o.kind, group |-> group]}
        ELSE {load_existing_cache(h, [group EXCEPT !.port_section = o.port])}
        : o \in reset_port_section_if_invalid(h, group)}

\* the group the caller handed in and the one it holds after the call
ProbeLoaded(group, loaded) == [group |-> group, loaded |-> loaded]

\* a caller runs group.load_existing_cache(ctx)
LoadExistingCache(group) ==
    /\ ~panicked
    /\ LET o == load_existing_cache(hashes, group)
       IN /\ panicked' = (o.kind = "panic")
          /\ ret' = CacheCall("load_existing_cache", group, o.kind, o.group.port_section)
          /\ probe' = ProbeLoaded(group, o.group)
    /\ UNCHANGED <<servers, overflow_checks, issued, stale_calls, hashes, sgset,
                   statusVars, ctxs>>

\* a caller runs to_server_group for the generic server whose template is `group`
ToServerGroup(group) ==
    /\ ~panicked
    /\ \E o \in to_server_group(hashes, group) :
          /\ panicked' = (o.kind = "panic")
          /\ ret' = CacheCall("to_server_group", group, o.kind, o.group.port_section)
          /\ probe' = ProbeLoaded(group, o.group)
    /\ UNCHANGED <<servers, overflow_checks, issued, stale_calls, hashes, sgset,
                   statusVars, ctxs>>

NextGeneric ==
    \/ \E g \in Callers : LoadExistingCache(g)
    \/ \E g \in Callers : ToServerGroup(g)

SpecGeneric == InitReconcile /\ [][NextGeneric]_vars

----------------------------------------------------------------------------
(* The reroll loop of reset_port_section_if_invalid, one iteration per step *)

\* get_port_section_is_invalid: the outcomes of one test of the loop, Ok with
\* the answer of check_port_section_conflicts or the failure of the listing
get_port_section_is_invalid(h, group) ==
    {IF l.kind = "Ok"
     THEN [kind |-> "Ok",
           invalid |-> check_port_section_conflicts(group.port_section, l.ports)]
     ELSE [kind |-> l.kind, invalid |-> FALSE]
     : l \in get_all_other_port_sections(h, group)}

\* no test of the loop has answered yet
NoTest == [kind |-> "-", invalid |-> FALSE]

\* the caller's group inside the loop, the section it came with, where the
\* call is (before the test, after it, returned) and what the test answered
InLoop(group) ==
    [pc |-> "test", group |-> group, initial |-> group.port_section, test |-> NoTest]

LoopRest == <<servers, overflow_checks, issued, stale_calls, hashes, sgset, statusVars, ctxs>>

\* the condition of the while: get_port_section_is_invalid reads the cache
TestPortSection ==
    /\ ~panicked
    /\ probe.pc = "test"
    /\ \E t \in get_port_section_is_invalid(hashes, probe.group) :
          probe' = [probe EXCEPT !.pc = "tested", !.test = t]
    /\ UNCHANGED <<panicked, ret, LoopRest>>

\* the test answered true: get_random_port_section draws q and the loop goes round
GetRandomPortSection(q) ==
    /\ ~panicked
    /\ probe.pc = "tested"
    /\ probe.test.kind = "Ok" /\ probe.test.invalid
    /\ probe' = [probe EXCEPT !.pc = "test", !.group.port_section = q, !.test = NoTest]
    /\ UNCHANGED <<panicked, ret, LoopRest>>

\* the test answered false: the loop ends and Ok(()) is returned
LoopReturns ==
    /\ ~panicked
    /\ probe.pc = "tested"
    /\ probe.test.kind = "Ok" /\ ~probe.test.invalid
    /\ probe' = [probe EXCEPT !.pc = "returned"]
    /\ ret' = CacheCall("reset_port_section_if_invalid", probe.group, "Ok",
                        probe.group.port_section)
    /\ UNCHANGED <<panicked, LoopRest>>

\* the test failed on a hash that does not parse: the `?` returns the error,
\* or from_hashmap has aborted
LoopFails ==
    /\ ~panicked
    /\ probe.pc = "tested"
    /\ probe.test.kind # "Ok"
    /\ panicked' = (probe.test.kind = "panic")
    /\ ret' = CacheCall("reset_port_section_if_invalid", probe.group, probe.test.kind,
                        probe.group.port_section)
    /\ probe' = [probe EXCEPT !.pc = "returned"]
    /\ UNCHANGED LoopRest

NextLoop ==
    \/ TestPortSection
    \/ \E q \in RerollRange : GetRandomPortSection(q)
    \/ LoopReturns
    \/ LoopFails

\* the caches the loop is run against: empty, one group at the top of the
\* window, a group at each end of the window, and two with a hash that does
\* not parse
LoopCaches ==
    LET low == to_hashmap(CallerGroup(SB, PortLo))
        high == to_hashmap(CallerGroup(MB, PortLo + MaxPortOffset - 1))
    IN { EmptyCache,
         (MB :> high),
         (SB :> low) @@ (MB :> high),
         (SB :> low) @@ (MB :> WithoutKey(high, "ram")),
         (MB :> [high EXCEPT !["prefix"] = <<"X">>]) }

\* the groups the loop is entered with: one that is cached and one that is not
LoopCallers ==
    {CallerGroup(q, port) : q \in {SB, TF}, port \in {PortLo, PortLo + BlockWidth + 1}}

InitLoop ==
    /\ hashes \in LoopCaches
    /\ sgset = DOMAIN hashes
    /\ servers = <<>>
    /\ overflow_checks = FALSE
    /\ panicked = FALSE
    /\ ret = NoCall
    /\ issued = [n \in GroupNames |-> {}]
    /\ stale_calls = 0
    /\ InitNoStatus
    /\ ctxs = NoContexts
    /\ probe \in {InLoop(g) : g \in LoopCallers}

SpecLoop == InitLoop /\ [][NextLoop]_vars

\* a draw of a section on which the next test of the loop answers false
DrawsValidSection ==
    \E q \in RerollRange :
        /\ GetRandomPortSection(q)
        /\ \E t \in get_port_section_is_invalid(hashes, probe'.group) :
              t.kind = "Ok" /\ ~t.invalid

\* the call keeps running; rng.gen_range, drawing uniformly, does not miss
\* the sections that pass the test for ever
FairLoop ==
    /\ WF_vars(TestPortSection)
    /\ WF_vars(\E q \in RerollRange : GetRandomPortSection(q))
    /\ SF_vars(DrawsValidSection)
    /\ WF_vars(LoopReturns)
    /\ WF_vars(LoopFails)

SpecLoopFair == SpecLoop /\ FairLoop

----------------------------------------------------------------------------
(* GameOptions::try_from *)

\* get_all_port_sections: the sections of every cached group, or the failure
get_all_port_sections(h) ==
    {IF l.kind = "Ok"
     THEN [kind |-> "Ok", ports |-> {sg.port_section : sg \in l.groups}]
     ELSE l : l \in get_server_groups(h)}

\* rnd_port: a section of gen_range(25565..26001), as far as the window
\* reaches, drawn again while it conflicts; "loops" when every section does
rnd_port(h) ==
    UNION {
        IF l.kind # "Ok" THEN {[kind |-> l.kind, port |-> NoNum]}
        ELSE LET free == {q \in PortWindow : ~check_port_section_conflicts(q, l.ports)}
             IN IF free = {} THEN {[kind |-> "loops", port |-> NoNum]}
                ELSE {[kind |-> "Ok", port |-> q] : q \in free}
        : l \in get_all_port_sections(h)}

\* GameOptions::try_from(game), for the game with this prefix: the argument
\* rnd_port()? of map_or is evaluated before map_or looks at `cached`
GameOptions_try_from(h, prefix) ==
    LET cached == get_server_group(h, prefix)
    IN IF cached.kind = "panic" THEN {[kind |-> "panic", port |-> NoNum]}
       ELSE {IF o.kind # "Ok" THEN o
             ELSE IF cached.kind = "Ok"
             THEN [kind |-> "Ok", port |-> cached.group.port_section]
             ELSE o
             : o \in rnd_port(h)}

\* a caller runs GameOptions::try_from for the game with this prefix
BuildOptions(prefix) ==
    /\ ~panicked
    /\ \E o \in GameOptions_try_from(hashes, prefix) :
          /\ panicked' = (o.kind = "panic")
          /\ ret' = [op |-> "try_from", node |-> "-", group |-> prefix, num |-> o.port,
                     res |-> o.kind]
    /\ UNCHANGED <<servers, overflow_checks, issued, stale_calls, hashes, sgset,
                   statusVars, restVars>>

NextOptions == \E q \in Prefixes : BuildOptions(q)

SpecOptions == InitReconcile /\ [][NextOptions]_vars

----------------------------------------------------------------------------
(* create run by two contexts side by side: one step per cache command *)

Contexts == {1, 2}

\* where a context is inside create, the group it holds, the keys of the
\* KEYS reply it has still to fetch, the sections fetched, whether it wrote
\* the hash, and what create returned
Context(pc, group, todo, ports, wrote, res) ==
    [pc |-> pc, group |-> group, todo |-> todo, ports |-> ports, wrote |-> wrote, res |-> res]

Entering(group) == Context("get_server_group", group, {}, {}, FALSE, "-")

\* the while loop of reset_port_section_if_invalid once every section is
\* fetched: a conflicting section is rerolled and the cache is read again
AfterFetch(c, ports) ==
    IF check_port_section_conflicts(c.group.port_section, ports)
    THEN {Context("KEYS", [c.group EXCEPT !.port_section = q], {}, {}, c.wrote, c.res) :
            q \in RerollRange}
    ELSE {Context("HSET", c.group, {}, ports, c.wrote, c.res)}

CtxRest == <<servers, overflow_checks, panicked, ret, issued, stale_calls, statusVars, probe>>

\* create: HGETALL servergroups.{prefix}
CtxGetServerGroup(i) ==
    /\ ctxs[i].pc = "get_server_group"
    /\ LET sg == get_server_group(hashes, ctxs[i].group.prefix)
       IN ctxs' = [ctxs EXCEPT ![i] =
                     IF sg.kind = "panic" THEN [@ EXCEPT !.pc = "done", !.res = "panic"]
                     ELSE IF sg.kind = "Ok" THEN [@ EXCEPT !.pc = "SADD"]
                     ELSE [@ EXCEPT !.pc = "KEYS"]]
    /\ UNCHANGED <<hashes, sgset, CtxRest>>

\* get_server_groups: KEYS servergroups.*
CtxKeys(i) ==
    /\ ctxs[i].pc = "KEYS"
    /\ \E next \in (IF DOMAIN hashes = {} THEN AfterFetch(ctxs[i], {})
                     ELSE {[ctxs[i] EXCEPT !.pc = "HGETALL", !.todo = DOMAIN hashes,
                                           !.ports = {}]}) :
          ctxs' = [ctxs EXCEPT ![i] = next]
    /\ UNCHANGED <<hashes, sgset, CtxRest>>

\* get_server_groups: HGETALL of one key of the reply
CtxFetch(i) ==
    /\ ctxs[i].pc = "HGETALL"
    /\ \E k \in ctxs[i].todo :
          LET sg == get_server_group(hashes, k)
              ports == ctxs[i].ports \cup {sg.group.port_section}
              todo == ctxs[i].todo \ {k}
          IN \E next \in (IF sg.kind # "Ok"
                           THEN {[ctxs[i] EXCEPT !.pc = "done", !.res = sg.kind]}
                           ELSE IF todo # {}
                           THEN {[ctxs[i] EXCEPT !.todo = todo, !.ports = ports]}
                           ELSE AfterFetch(ctxs[i], ports)) :
                ctxs' = [ctxs EXCEPT ![i] = next]
    /\ UNCHANGED <<hashes, sgset, CtxRest>>

\* create: HSET servergroups.{prefix} params
CtxHset(i) ==
    /\ ctxs[i].pc = "HSET"
    /\ hashes' = HSET(hashes, ctxs[i].group.prefix, to_hashmap(ctxs[i].group))
    /\ ctxs' = [ctxs EXCEPT ![i] = [@ EXCEPT !.pc = "SADD", !.wrote = TRUE]]
    /\ UNCHANGED <<sgset, CtxRest>>

\* create: SADD servergroups prefix, on either path
CtxSadd(i) ==
    /\ ctxs[i].pc = "SADD"
    /\ sgset' = sgset \cup {ctxs[i].group.prefix}
    /\ ctxs' = [ctxs EXCEPT ![i] = [@ EXCEPT !.pc = "done", !.res = "Ok"]]
    /\ UNCHANGED <<hashes, CtxRest>>

NextContexts ==
    \E i \in Contexts :
        \/ CtxGetServerGroup(i)
        \/ CtxKeys(i)
        \/ CtxFetch(i)
        \/ CtxHset(i)
        \/ CtxSadd(i)

\* both contexts enter create for MB; the cache is empty or holds SB
InitContexts ==
    /\ servers = <<>>
    /\ overflow_checks = FALSE
    /\ panicked = FALSE
    /\ ret = NoCall
    /\ issued = [n \in GroupNames |-> {}]
    /\ stale_calls = 0
    /\ InitNoStatus
    /\ probe = NoProbe
    /\ \E present \in SUBSET {SB} :
          /\ hashes = [q \in present |-> to_hashmap(CallerGroup(q, PortLo))]
          /\ sgset = present
    /\ ctxs \in [Contexts -> {Entering(g) : g \in {c \in Callers : c.prefix = MB}}]

SpecContexts == InitContexts /\ [][NextContexts]_vars

\* one context enters create for MB, the other for SB, neither cached; the
\* cache is empty or holds TF
InitTwoPrefixes ==
    /\ servers = <<>>
    /\ overflow_checks = FALSE
    /\ panicked = FALSE
    /\ ret = NoCall
    /\ issued = [n \in GroupNames |-> {}]
    /\ stale_calls = 0
    /\ InitNoStatus
    /\ probe = NoProbe
    /\ \E present \in SUBSET {TF} :
          /\ hashes = [q \in present |-> to_hashmap(CallerGroup(q, PortLo))]
          /\ sgset = present
    /\ \E a \in {c \in Callers : c.prefix = MB}, b \in {c \in Callers : c.prefix = SB} :
          ctxs = [i \in Contexts |-> IF i = 1 THEN Entering(a) ELSE Entering(b)]

SpecTwoPrefixes == InitTwoPrefixes /\ [][NextContexts]_vars

----------------------------------------------------------------------------
(* MinecraftServer: the status snapshot of an instance and its update *)

\* the text "servergroups." put in front of a group name
KeyPrefix == <<"servergroups.">>

\* ServerGroup::from_str(group): the hash under "servergroups." + group
from_str(h, group) == get_server_group(h, group)

\* MinecraftServer::get_server_group: from_str of "servergroups." + self.group,
\* so the key read is servergroups.servergroups.{group}
MinecraftServer_get_server_group(h, self) == from_str(h, KeyPrefix \o self.group)

\* the value a game server keeps under its status key; parses = FALSE for a
\* value from_redis_value rejects
StatusValue(name, group, current_time, player_count) ==
    [parses |-> TRUE, name |-> name, group |-> group, current_time |-> current_time,
     player_count |-> player_count]

BadStatusValue ==
    [parses |-> FALSE, name |-> <<>>, group |-> <<>>, current_time |-> 0, player_count |-> 0]

\* MinecraftServer::get: GET serverstatus.minecraft.{region}.{name}
MinecraftServer_get(st, server_name, region) ==
    LET key == <<region, server_name>>
    IN IF key \in DOMAIN st /\ st[key].parses
       THEN [kind |-> "Ok",
             server |-> [name |-> st[key].name, group |-> st[key].group,
                         current_time |-> st[key].current_time,
                         player_count |-> st[key].player_count]]
       ELSE [kind |-> "Err"]

Seconds == 5
Interval == Seconds * 1000

\* MinecraftServer::is_online at wall clock t: "true", "false" or "panic".
\* current_time - interval is a u64 subtraction: below Interval it aborts
\* under overflow checks and otherwise wraps to a value above every clock
\* reading, so the lower comparison fails. The sum stays far below 2^64 for
\* the times used.
is_online(self, t, checks) ==
    IF self.current_time < Interval
    THEN IF checks THEN "panic" ELSE "false"
    ELSE LET seconds_before_curr == self.current_time - Interval
             seconds_after_curr == self.current_time + Interval
         IN IF seconds_before_curr <= t /\ t <= seconds_after_curr
            THEN "true" ELSE "false"

\* update that copies the snapshot read before it tests the window
update_copy_first(self, h, st, t, checks) ==
    LET group == MinecraftServer_get_server_group(h, self)
    IN IF group.kind = "panic" THEN [res |-> "panic", self |-> self]
       ELSE IF group.kind # "Ok" THEN [res |-> "GROUP_NOT_FOUND", self |-> self]
       ELSE
         LET got == MinecraftServer_get(st, self.name, group.group.region)
         IN IF got.kind # "Ok" THEN [res |-> "INSTANCE_NOT_FOUND", self |-> self]
            ELSE IF self.current_time = got.server.current_time
            THEN LET online == is_online(self, t, checks)
                 IN IF online = "panic" THEN [res |-> "panic", self |-> self]
                    ELSE IF online = "false" THEN [res |-> "OFFLINE", self |-> got.server]
                    ELSE [res |-> "ONLINE", self |-> got.server]
            ELSE [res |-> "ONLINE", self |-> got.server]

\* MinecraftServer::update: the status returned and `self` afterwards
update(self, h, st, t, checks) ==
    LET group == MinecraftServer_get_server_group(h, self)
    IN IF group.kind = "panic" THEN [res |-> "panic", self |-> self]
       ELSE IF group.kind # "Ok" THEN [res |-> "GROUP_NOT_FOUND", self |-> self]
       ELSE
         LET got == MinecraftServer_get(st, self.name, group.group.region)
         IN IF got.kind # "Ok" THEN [res |-> "INSTANCE_NOT_FOUND", self |-> self]
            ELSE IF self.current_time = got.server.current_time
            THEN LET online == is_online(self, t, checks)
                 IN IF online = "panic" THEN [res |-> "panic", self |-> self]
                    ELSE IF online = "false" THEN [res |-> "OFFLINE", self |-> self]
                    ELSE [res |-> "ONLINE", self |-> got.server]
            ELSE [res |-> "ONLINE", self |-> got.server]

----------------------------------------------------------------------------
(* One instance polled while its game server writes its status *)

InstanceName == MB \o <<"-", "1">>
StatusKey == <<"US", InstanceName>>

\* values of _currentTime and readings of the wall clock, milliseconds
StampTimes == {2000, 10000, 14000, 20000}
ClockTimes == {10000, 15000, 15001, 30000}
\* values of _playerCount
PlayerCounts == {0, 3}

\* the monitor runs snapshot.update(ctx)
Update ==
    /\ ~panicked
    /\ LET r == update(snapshot, hashes, status, now, overflow_checks)
       IN /\ snapshot' = r.self
          /\ seen' = seen \cup {r.self.current_time}
          /\ panicked' = (r.res = "panic")
          /\ ret' = [op |-> "update", node |-> "-", group |-> snapshot.group,
                     num |-> NoNum, res |-> r.res]
    /\ UNCHANGED <<servers, overflow_checks, issued, stale_calls, hashes, sgset, status, now,
                   restVars>>

\* the game server writes its status with _currentTime = t, _playerCount = p
GameWrites(t, p) ==
    /\ ~panicked
    /\ status' = (StatusKey :> StatusValue(InstanceName, MB, t, p)) @@ status
    /\ UNCHANGED <<servers, overflow_checks, panicked, ret, issued, stale_calls,
                   hashes, sgset, snapshot, now, seen, restVars>>

\* the status key is left with a value that is no status
GameWritesBadValue ==
    /\ ~panicked
    /\ status' = (StatusKey :> BadStatusValue) @@ status
    /\ UNCHANGED <<servers, overflow_checks, panicked, ret, issued, stale_calls,
                   hashes, sgset, snapshot, now, seen, restVars>>

\* the status key expires or is deleted
StatusExpires ==
    /\ ~panicked
    /\ StatusKey \in DOMAIN status
    /\ status' = [k \in (DOMAIN status) \ {StatusKey} |-> status[k]]
    /\ UNCHANGED <<servers, overflow_checks, panicked, ret, issued, stale_calls,
                   hashes, sgset, snapshot, now, seen, restVars>>

\* the wall clock moves on
Tick(t) ==
    /\ ~panicked
    /\ t > now
    /\ now' = t
    /\ UNCHANGED <<servers, overflow_checks, panicked, ret, issued, stale_calls,
                   hashes, sgset, snapshot, status, seen, restVars>>

NextStatus ==
    \/ Update
    \/ \E t \in StampTimes, p \in PlayerCounts : GameWrites(t, p)
    \/ GameWritesBadValue
    \/ StatusExpires
    \/ \E t \in ClockTimes : Tick(t)

\* the hashes the group of the instance may have: under servergroups.MB as
\* create leaves it, and under the key update reads
GroupHashes ==
    LET wf == to_hashmap(CallerGroup(MB, PortLo))
    IN { wf, [wf EXCEPT !["region"] = <<"EU">>], WithoutKey(wf, "ram") }

InitStatus ==
    /\ servers = <<>>
    /\ overflow_checks \in BOOLEAN
    /\ panicked = FALSE
    /\ ret = NoCall
    /\ issued = [n \in GroupNames |-> {}]
    /\ stale_calls = 0
    /\ sgset = {MB}
    /\ \E present \in SUBSET {MB, KeyPrefix \o MB} :
          hashes \in {h \in [present -> GroupHashes] :
                         MB \in present => h[MB] = to_hashmap(CallerGroup(MB, PortLo))}
    /\ \E t \in {x \in StampTimes : x >= Interval} :
          /\ snapshot = [name |-> InstanceName, group |-> MB, current_time |-> t,
                         player_count |-> 0]
          /\ status = (StatusKey :> StatusValue(InstanceName, MB, t, 0))
          /\ seen = {t}
    /\ now = 10000
    /\ InitNoRest

SpecStatus == InitStatus /\ [][NextStatus]_vars

----------------------------------------------------------------------------
(* launch_server *)

\* DedicatedServer::launch_server: the region assert, the name pushed together
\* without a dash, then the loop, whose first statement is todo!(); the poll
\* and the tick test after it are never reached
launch_server(ds, group, server_num) ==
    IF group.region # ds.region
    THEN [res |-> "panic", at |-> "assert_eq", server_name |-> <<>>]
    ELSE [res |-> "panic", at |-> "todo", server_name |-> group.name \o ToDecimal(server_num)]

\* a caller runs ds.launch_server(group, server_num, ctx) on the node at position i
LaunchServer(i, group, server_num) ==
    /\ ~panicked
    /\ LET r == launch_server(servers[i], group, server_num)
       IN /\ panicked' = (r.res = "panic")
          /\ ret' = [op |-> "launch_server", node |-> servers[i].name, group |-> group.name,
                     num |-> server_num, res |-> r.res]
          /\ probe' = [at |-> r.at, server_name |-> r.server_name]
    /\ UNCHANGED <<servers, overflow_checks, issued, stale_calls, hashes, sgset, statusVars, ctxs>>

NextLaunch ==
    \/ \E i \in 1..Len(servers), g \in {gMB, gC4}, n \in 1..2 : LaunchServer(i, g, n)
    \/ \E t \in StampTimes, p \in PlayerCounts : GameWrites(t, p)
    \/ StatusExpires
    \/ \E t \in ClockTimes : Tick(t)

\* one node; the instance's status may already be in the cache
InitLaunch ==
    /\ \E c \in NodeCaps : servers = << dedicated_server_with_defaults("N1", "US", c) >>
    /\ overflow_checks \in BOOLEAN
    /\ panicked = FALSE
    /\ ret = NoCall
    /\ issued = [n \in GroupNames |-> {}]
    /\ stale_calls = 0
    /\ hashes = EmptyCache
    /\ sgset = {}
    /\ snapshot = NoSnapshot
    /\ status \in {NoStatus} \cup {(StatusKey :> StatusValue(InstanceName, MB, t, 0)) : t \in StampTimes}
    /\ now = 10000
    /\ seen = {}
    /\ InitNoRest

SpecLaunch == InitLaunch /\ [][NextLaunch]_vars

----------------------------------------------------------------------------
(* Status values as JSON objects: parsing and the dead-server sweep *)

\* a JSON value: a number or a string; the keys kept are one or more of each
\* kind TryFrom reads (string, u8, u16, u64)
Num(n) == [t |-> "num", v |-> n]
Str(x) == [t |-> "str", v |-> x]

StatusKeys == {"_name", "_group", "_playerCount", "_port", "_startUpDate", "_currentTime"}

JsonStatus(name, player_count, port, start_up_date, current_time) ==
    [k \in StatusKeys |->
        CASE k = "_name" -> Str(name)
          [] k = "_group" -> Str(MB)
          [] k = "_playerCount" -> Num(player_count)
          [] k = "_port" -> Num(port)
          [] k = "_startUpDate" -> Num(start_up_date)
          [] k = "_currentTime" -> Num(current_time)]

U8Mod == 256

ParseFailed == [ok |-> FALSE, v |-> 0]
ParsedAs(v) == [ok |-> TRUE, v |-> v]

\* parse_string_from_map
parse_string_from_map(map, key) ==
    IF key \in DOMAIN map /\ map[key].t = "str" THEN ParsedAs(map[key].v) ELSE ParseFailed

\* parse_u8_from_map: as_i64, then `num as u8`
parse_u8_from_map(map, key) ==
    IF key \in DOMAIN map /\ map[key].t = "num" THEN ParsedAs(map[key].v % U8Mod)
    ELSE ParseFailed

\* parse_u16_from_map: as_i64, then `num as u16`
parse_u16_from_map(map, key) ==
    IF key \in DOMAIN map /\ map[key].t = "num" THEN ParsedAs(map[key].v % U16Mod)
    ELSE ParseFailed

\* parse_u64_from_map: as_i64, then `num as u64`, which keeps the 64 bits; the
\* u64 is held here by the i64 with the same bits (itself when not negative,
\* 2^64 more than it when negative)
parse_u64_from_map(map, key) ==
    IF key \in DOMAIN map /\ map[key].t = "num" THEN ParsedAs(map[key].v) ELSE ParseFailed

\* TryFrom<serde_json::Value> for MinecraftServer
try_from(map) ==
    LET name == parse_string_from_map(map, "_name")
        group == parse_string_from_map(map, "_group")
        player_count == parse_u8_from_map(map, "_playerCount")
        port == parse_u16_from_map(map, "_port")
        start_up_date == parse_u64_from_map(map, "_startUpDate")
        current_time == parse_u64_from_map(map, "_currentTime")
    IN IF name.ok /\ group.ok /\ player_count.ok /\ port.ok /\ start_up_date.ok
          /\ current_time.ok
       THEN [kind |-> "Ok",
             server |-> [name |-> name.v, group |-> group.v, player_count |-> player_count.v,
                         port |-> port.v, start_up_date |-> start_up_date.v,
                         current_time |-> current_time.v]]
       ELSE [kind |-> "Err"]

\* Local::now().timestamp(): seconds, from the clock in milliseconds
Timestamp(t) == t \div 1000

\* get_uptime_as_seconds: `start_up_date as i64` gives back the i64 with the same bits
get_uptime_as_seconds(self, t) == Timestamp(t) - self.start_up_date

is_empty(self) == self.player_count = 0

DeadAfter == 150

\* is_dead_server with `>` for `>=`
is_dead_server_strict(self, t) == is_empty(self) /\ get_uptime_as_seconds(self, t) > DeadAfter

is_dead_server(self, t) == is_empty(self) /\ get_uptime_as_seconds(self, t) >= DeadAfter

\* get_all: KEYS serverstatus.minecraft.*.*, GET and parse of each; one
\* value that does not parse fails the whole call
get_all(st) ==
    LET fetched == {try_from(st[k]) : k \in DOMAIN st}
    IN IF \E r \in fetched : r.kind # "Ok" THEN [kind |-> "Err", servers |-> {}]
       ELSE [kind |-> "Ok", servers |-> {r.server : r \in fetched}]

get_empty_servers(st, t) ==
    LET all == get_all(st)
    IN IF all.kind # "Ok" THEN all
       ELSE [kind |-> "Ok", servers |-> {sv \in all.servers : is_dead_server(sv, t)}]

\* ---- the parser called on its own ----
JsonNumbers == {-1, 0, 1, U8Max, U8Mod, U16Max, U16Mod}

ProbeJson(map) == [map |-> map, parsed |-> NotParsed]

TryFrom ==
    /\ probe # NoProbe
    /\ probe.parsed = NotParsed
    /\ probe' = [probe EXCEPT !.parsed = try_from(probe.map)]
    /\ UNCHANGED <<servers, overflow_checks, panicked, ret, issued, stale_calls, hashes, sgset,
                   statusVars, ctxs>>

InitParse ==
    /\ servers = <<>>
    /\ overflow_checks \in BOOLEAN
    /\ panicked = FALSE
    /\ ret = NoCall
    /\ issued = [n \in GroupNames |-> {}]
    /\ stale_calls = 0
    /\ hashes = EmptyCache
    /\ sgset = {}
    /\ InitNoStatus
    /\ \E pc \in JsonNumbers, port \in JsonNumbers, sud \in {-1, 0, 1}, ct \in {-1, 0, 1},
          gone \in SUBSET {"_port"} :
          LET js == JsonStatus(InstanceName, pc, port, sud, ct)
          IN probe = ProbeJson([k \in StatusKeys \ gone |-> js[k]])
    /\ ctxs = NoContexts

SpecParse == InitParse /\ [][TryFrom]_vars

\* ---- the sweep ----
SweepNames == {MB \o <<"-", "1">>, MB \o <<"-", "2">>}
SweepStarts == {0, 50, 149, 150, 151, 200, 400}
SweepValues ==
    {JsonStatus(n, pc, PortLo + 1, sud, 300000) :
        n \in SweepNames, pc \in {0, 1}, sud \in SweepStarts}
SweepClock == {300000, 300999, 301000}

\* a value that is no status: the _port key is missing
BadJson(n) ==
    LET js == JsonStatus(n, 0, PortLo + 1, 0, 300000)
    IN [k \in StatusKeys \ {"_port"} |-> js[k]]

\* a caller runs MinecraftServer::get_empty_servers
GetEmptyServers ==
    /\ LET r == get_empty_servers(status, now)
       IN probe' = [kind |-> r.kind, servers |-> r.servers, at |-> now]
    /\ ret' = [op |-> "get_empty_servers", node |-> "-", group |-> <<>>, num |-> NoNum,
               res |-> get_empty_servers(status, now).kind]
    /\ UNCHANGED <<servers, overflow_checks, panicked, issued, stale_calls, hashes, sgset,
                   statusVars, ctxs>>

NextSweep ==
    \/ GetEmptyServers
    \/ \E t \in SweepClock : Tick(t)

InitSweep ==
    /\ servers = <<>>
    /\ overflow_checks \in BOOLEAN
    /\ panicked = FALSE
    /\ ret = NoCall
    /\ issued = [n \in GroupNames |-> {}]
    /\ stale_calls = 0
    /\ hashes = EmptyCache
    /\ sgset = {}
    /\ snapshot = NoSnapshot
    /\ seen = {}
    /\ now = 300000
    /\ \E present \in SUBSET SweepNames :
          status \in {st \in [{<<"US", n>> : n \in present} -> SweepValues \cup {BadJson(n) : n \in SweepNames}] :
                         \A k \in DOMAIN st : st[k]["_name"].v = k[2]}
    /\ InitNoRest

SpecSweep == InitSweep /\ [][NextSweep]_vars

----------------------------------------------------------------------------
(* Properties of the node bookkeeping *)

Nodes == {servers[i] : i \in 1..Len(servers)}

NodeNamed(n) == CHOOSE ds \in Nodes : ds.name = n

\* every instance a node holds, over all its groups
InstancesOf(ds) ==
    UNION { {[key |-> k, idx |-> i, inst |-> ds.server_instances[k][i]] :
                i \in 1..Len(ds.server_instances[k])} : k \in DOMAIN ds.server_instances }

RECURSIVE SumRam(_)
SumRam(S) ==
    IF S = {} THEN 0
    ELSE LET e == CHOOSE y \in S : TRUE IN GroupNamed(e.key).ram + SumRam(S \ {e})

RECURSIVE SumCpu(_)
SumCpu(S) ==
    IF S = {} THEN 0
    ELSE LET e == CHOOSE y \in S : TRUE IN GroupNamed(e.key).cpu + SumCpu(S \ {e})

HeldRam(ds) == SumRam(InstancesOf(ds))
HeldCpu(ds) == SumCpu(InstancesOf(ds))

NoDuplicates(seq) == \A i, j \in 1..Len(seq) : seq[i] = seq[j] => i = j

\* C1 (as stated): capacity conservation. While every call passed the
\* group's own record and none aborted, each node has
\* available_cpu = max_cpu - (sum of g.cpu over the instances it holds) and
\* available_ram = max_ram - (sum of g.ram over the instances it holds).
C1_CapacityConservation ==
    (~panicked /\ stale_calls = 0) =>
        \A ds \in Nodes :
            /\ ds.available_cpu = ds.max_cpu - HeldCpu(ds)
            /\ ds.available_ram = ds.max_ram - HeldRam(ds)

\* C4 (as stated): on every node, get_server_nums(g) holds no number twice,
\* for every group g of the node's region.
C4_UniqueServerNums ==
    \A ds \in Nodes : \A g \in Groups :
        g.region = ds.region => NoDuplicates(get_server_nums(ds, g))

\* C5 (as stated): every instance a node holds has the node's region.
C5_RegionPinning ==
    \A ds \in Nodes : \A e \in InstancesOf(ds) : e.inst.region = ds.region

C14_DuplicateRejection ==
    [][\A i \in 1..Len(servers), g \in NodeGroups :
          ( /\ ret.op = "add_server" /\ ret.res = "Ok"
            /\ ret.node = servers[i].name /\ ret.group = g.name
            /\ g.region = servers[i].region
            /\ has_space_for(servers[i], g)
            /\ AddServer(i, g, ret.num) )
          => (ret'.res = "DuplicateInstanceRunning" /\ servers' = servers)]_vars

\* C15 (as stated): remove_server(g, n) returns ZeroInstancesRunning when the
\* node holds no instance of g, InstanceNotFound when it holds instances of g
\* but none numbered n, and in both cases leaves available_cpu and
\* available_ram as they are.
C15_RemoveErrorKinds ==
    [][\A i \in 1..Len(servers), g \in AllGroupRecords, n \in 0..MaxServerNum :
          RemoveServer(i, g, n) =>
            LET held == get_instances(servers[i], g)
            IN /\ held = <<>> => ret'.res = "ZeroInstancesRunning"
               /\ (held # <<>> /\ ~Contains(get_server_nums(servers[i], g), n))
                     => ret'.res = "InstanceNotFound"
               /\ ret'.res \in {"ZeroInstancesRunning", "InstanceNotFound"} =>
                     /\ servers'[i].available_cpu = servers[i].available_cpu
                     /\ servers'[i].available_ram = servers[i].available_ram]_vars

AddedOk == ret.op = "add_server" /\ ret.res = "Ok"

\* the instance add_server has just pushed: the last of the group's list
Pushed ==
    LET held == NodeNamed(ret.node).server_instances[ret.group]
    IN held[Len(held)]

\* C22: the instance add_server(g, n) creates is named "{g.prefix}-{n}" and
\* the server number stored in it is n, whatever the group's name.
C22_InstanceNaming ==
    AddedOk =>
        /\ Pushed.name = GroupNamed(ret.group).prefix \o <<"-">> \o ToDecimal(ret.num)
        /\ Pushed.server_num = ret.num


\* C24: add_server finds space exactly when available_ram >= g.ram and
\* available_cpu >= g.cpu as integers, for every 16-bit g.ram, and a
\* successful add_server never increases available_ram or available_cpu.
C24_HasSpaceFor ==
    [][\A i \in 1..Len(servers), g \in AllGroupRecords, n \in 0..MaxServerNum :
          AddServer(i, g, n) =>
             /\ (ret'.res # "StorageError")
                   <=> (servers[i].available_ram >= g.ram /\ servers[i].available_cpu >= g.cpu)
             /\ ret'.res = "Ok" =>
                   /\ servers'[i].available_ram <= servers[i].available_ram
                   /\ servers'[i].available_cpu <= servers[i].available_cpu]_vars

\* how often x occurs in a list
Occurrences(seq, x) == Cardinality({i \in 1..Len(seq) : seq[i] = x})

\* two lists hold the same instances, each as often, in whatever order
SameInstances(v, w) ==
    /\ Len(v) = Len(w)
    /\ \A i \in 1..Len(v) : Occurrences(v, v[i]) = Occurrences(w, v[i])

\* the node's capacity fields and the instances it holds for every group
SameNode(a, b) ==
    /\ a.available_cpu = b.available_cpu /\ a.available_ram = b.available_ram
    /\ a.max_cpu = b.max_cpu /\ a.max_ram = b.max_ram
    /\ DOMAIN a.server_instances = DOMAIN b.server_instances
    /\ \A k \in DOMAIN a.server_instances :
          SameInstances(a.server_instances[k], b.server_instances[k])

AddErrors == {"StorageError", "DuplicateInstanceRunning"}
RemoveErrors == {"ZeroInstancesRunning", "InstanceNotFound"}

\* C34: an add_server that returns the no-space or the duplicate error, and a
\* remove_server that returns the zero-instances or the not-found error, leave
\* the node's available and max cpu and ram and the instances held for every
\* group as they were.
C34_FailedOpsChangeNothing ==
    [][\A i \in 1..Len(servers), g \in AllGroupRecords, n \in 0..(MaxServerNum + 1) :
          ( \/ AddServer(i, g, n) /\ ret'.res \in AddErrors
            \/ RemoveServer(i, g, n) /\ ret'.res \in RemoveErrors )
          => SameNode(servers[i], servers'[i])]_vars

\* C34 witness: remove_server did not find the number on a node that holds
\* two different instances of the group, whose list it has sorted
C34_Witness ==
    /\ ret.op = "remove_server" /\ ret.res = "InstanceNotFound"
    /\ LET held == NodeNamed(ret.node).server_instances[ret.group]
       IN Len(held) = 2 /\ held[1].name # held[2].name

----------------------------------------------------------------------------
(* Properties of the placement engine *)

Eligible(ds, g) == ds.region = g.region /\ has_space_for(ds, g)

BestCall == ret.op = "get_best_dedicated_server" /\ ret.res = "Some"

\* C3: the node get_best_dedicated_server(g) returns has g's region and has
\* space for g, and no other node with g's region and space for g holds
\* strictly fewer instances of g.
C3_PlacementDominance ==
    BestCall =>
        LET g == GroupNamed(ret.group)
            best == NodeNamed(ret.node)
        IN /\ best.region = g.region
           /\ has_space_for(best, g)
           /\ \A ds \in Nodes :
                 Eligible(ds, g) => Len(get_instances(ds, g)) >= Len(get_instances(best, g))

\* C3 witness: a node was returned although another eligible node, with more
\* instances of g, was there too, and a third node was not eligible.
C3_Witness ==
    /\ BestCall
    /\ LET g == GroupNamed(ret.group)
           best == NodeNamed(ret.node)
       IN /\ \E ds \in Nodes :
                Eligible(ds, g) /\ Len(get_instances(ds, g)) > Len(get_instances(best, g))
          /\ \E ds \in Nodes : ~Eligible(ds, g)

\* the server numbers the instances of group g hold, over all nodes
HeldNums(g) ==
    UNION { {get_server_nums(ds, g)[i] : i \in 1..Len(get_server_nums(ds, g))} : ds \in Nodes }

NextNumCall == ret.op = "get_next_server_num"

HasDash(name) == \E i \in 1..Len(name) : name[i] = "-"

BestAsked == ret.op = "get_best_dedicated_server"

\* C21: get_best_dedicated_server(g) returns None exactly when no node has
\* g's region and space for g; when such a node exists, a node is returned.
C21_PlacementCompleteness ==
    BestAsked =>
        ((ret.res = "None") <=> ~\E ds \in Nodes : Eligible(ds, GroupNamed(ret.group)))

\* None was returned although a node of the group's region is there, full
C21_Witness ==
    /\ BestAsked /\ ret.res = "None"
    /\ \E ds \in Nodes : ds.region = GroupNamed(ret.group).region

\* Ord for DedicatedServer, strict: a's (available_ram, available_cpu) pair is
\* greater than b's
Richer(a, b) ==
    \/ a.available_ram > b.available_ram
    \/ a.available_ram = b.available_ram /\ a.available_cpu > b.available_cpu

\* the nodes eligible for g that hold as few instances of g as the returned one
TiedWith(best, g) ==
    {ds \in Nodes : Eligible(ds, g)
                    /\ Len(get_instances(ds, g)) = Len(get_instances(best, g))}

C38_BestOnlyReorders ==
    [][\A g \in PlacementGroups :
          GetBestDedicatedServer(g) =>
              /\ Len(servers') = Len(servers)
              /\ \A i \in 1..Len(servers) :
                    Occurrences(servers', servers[i]) = Occurrences(servers, servers[i])]_vars

\* C38 witness: after a call the nodes, some holding instances, are no longer
\* in the order they were loaded in
C38_Witness ==
    /\ BestAsked
    /\ servers[1].name # "N1"
    /\ \E ds \in Nodes : InstancesOf(ds) # {}

FleetPositions(g) ==
    {p \in (1..Len(servers)) \X (1..MaxPlaced) : p[2] <= Len(get_instances(servers[p[1]], g))}

InstanceAt(g, p) == get_instances(servers[p[1]], g)[p[2]]

\* C33: with instances placed only through the composite action, interleaved
\* with removals, no two instances of a group that exist at the same time, on
\* one node or on two, share a server number or an instance name.
C33_FleetUniqueNumbers ==
    \A g \in PlacementGroups :
        \A p \in FleetPositions(g), q \in FleetPositions(g) :
            p # q => /\ get_server_num(InstanceAt(g, p)) # get_server_num(InstanceAt(g, q))
                     /\ InstanceAt(g, p).name # InstanceAt(g, q).name

\* every instance held, with the group it is filed under
Placed == UNION {InstancesOf(ds) : ds \in Nodes}

\* C23: every placed instance of g with number N has port g.port_section + N
\* inside g's 10-wide block, and no two instances of different groups hold
\* the same port.
C23_PortsInBlock ==
    /\ \A x \in Placed :
          LET g == GroupNamed(x.key)
          IN /\ x.inst.port = g.port_section + x.inst.server_num
             /\ x.inst.port <= g.port_section + BlockWidth
    /\ \A x, y \in Placed : x.key # y.key => x.inst.port # y.inst.port

----------------------------------------------------------------------------
(* Properties of the group registry *)

WellFormed(h, q) == get_server_group(h, q).kind = "Ok"

CachedGroups == {get_server_group(hashes, q).group : q \in {r \in DOMAIN hashes : WellFormed(hashes, r)}}

Within10(a, b) == a - b <= BlockWidth /\ b - a <= BlockWidth

\* C2: no two distinct cached groups have port sections that are equal or
\* within 10 of each other.
C2_PortNonCollision ==
    \A a, b \in CachedGroups :
        a.prefix # b.prefix => ~Within10(a.port_section, b.port_section)

\* C2 witness: a create that had to reroll has succeeded with two other
\* groups cached.
C2_Witness ==
    /\ ret.op = "create" /\ ret.res = "Ok"
    /\ Cardinality(DOMAIN hashes) = 3
    /\ ret.num \notin CallerPorts

\* C10: a prefix is in the set servergroups exactly when the hash
\* servergroups.{prefix} exists.
C10_SetMirrorsHashes == sgset = DOMAIN hashes

\* C10 witness: after a delete, one group is gone from both and another is
\* still in both.
C10_Witness ==
    /\ ret.op = "delete" /\ ret.res = "Ok"
    /\ ret.group \notin sgset
    /\ sgset # {}

CreateOk == ret.op = "create" /\ ret.res = "Ok"

C9_DeletePostcondition ==
    (ret.op = "delete" /\ ret.res = "Ok") =>
        /\ ret.group \notin DOMAIN hashes
        /\ ret.group \notin sgset

----------------------------------------------------------------------------
(* Properties of the status update *)

\* the group of the snapshot as cached under servergroups.{group}
SnapshotGroup == get_server_group(hashes, snapshot.group)

\* C11 (as stated): when the group and the status key both resolve, update
\* returns ONLINE if the current_time read advanced past the stored one or the
\* wall clock is within 5000 ms of the current_time read, and OFFLINE otherwise.
C11_OnlineWindow ==
    [][Update =>
        LET group == MinecraftServer_get_server_group(hashes, snapshot)
            got == IF group.kind = "Ok"
                   THEN MinecraftServer_get(status, snapshot.name, group.group.region)
                   ELSE [kind |-> "Err"]
        IN (group.kind = "Ok" /\ got.kind = "Ok") =>
              LET fresh == got.server.current_time
                  advanced == fresh > snapshot.current_time
                  within == now - fresh <= Interval /\ fresh - now <= Interval
              IN IF advanced \/ within
                 THEN ret'.res = "ONLINE"
                 ELSE ret'.res = "OFFLINE"]_vars

\* C12 (as stated): whenever update has returned ONLINE, the current_time of
\* the stored snapshot is at least that of every snapshot stored before.
C12_UpdateMonotonic ==
    (ret.op = "update" /\ ret.res = "ONLINE") =>
        \A t \in seen : snapshot.current_time >= t

\* C13 (as stated): update returns GROUP_NOT_FOUND exactly when no well-formed
\* hash is cached under servergroups.{group of the snapshot}, and
\* INSTANCE_NOT_FOUND exactly when that group resolves and the status key
\* serverstatus.minecraft.{region}.{name} is missing.
C13_ResolvesByPrefix ==
    [][Update =>
        LET cached == SnapshotGroup.kind = "Ok"
            missing == cached /\
                       <<SnapshotGroup.group.region, snapshot.name>> \notin DOMAIN status
        IN /\ (ret'.res = "GROUP_NOT_FOUND") <=> ~cached
           /\ (ret'.res = "INSTANCE_NOT_FOUND") <=> missing]_vars

\* what update reads under the status key of the snapshot
FreshlyRead ==
    LET group == MinecraftServer_get_server_group(hashes, snapshot)
    IN MinecraftServer_get(status, snapshot.name, group.group.region)

UpdateErrors == {"OFFLINE", "GROUP_NOT_FOUND", "INSTANCE_NOT_FOUND"}

\* C35: when update returns OFFLINE, GROUP_NOT_FOUND or INSTANCE_NOT_FOUND the
\* stored snapshot is the same as before the call in every field; only an
\* ONLINE result replaces it, and then with exactly the snapshot just read.
C35_UpdateFrame ==
    [][Update =>
        /\ ret'.res \in UpdateErrors => snapshot' = snapshot
        /\ ret'.res = "ONLINE" => snapshot' = FreshlyRead.server
        /\ snapshot' # snapshot => ret'.res = "ONLINE"]_vars

\* C35 witness: update returned OFFLINE while the status under the key differs
\* from the stored snapshot in its player count
C35_Witness ==
    /\ ret.op = "update" /\ ret.res = "OFFLINE"
    /\ StatusKey \in DOMAIN status
    /\ status[StatusKey].parses
    /\ status[StatusKey].current_time = snapshot.current_time
    /\ status[StatusKey].player_count # snapshot.player_count

\* create reaches the port allocator and the allocator fails: the hash of the
\* caller's prefix is not there or does not parse, and some cached hash does
\* not parse
AllocatorFails(group) ==
    /\ get_server_group(hashes, group.prefix).kind = "Err"
    /\ \E q \in DOMAIN hashes : get_server_group(hashes, q).kind # "Ok"

\* C36: when the port allocator step of create fails because a cached
\* servergroups.* hash is malformed, create returns an error, and neither the
\* hashes nor the set servergroups is modified.
C36_FailedCreateWritesNothing ==
    [][\A g \in Callers :
          (AllocatorFails(g) /\ Create(g)) =>
              /\ ret'.res = "Err"
              /\ hashes' = hashes
              /\ sgset' = sgset]_vars

(***************************************************************************)
(* Properties of the collision predicate                                   *)
(***************************************************************************)
Distance(a, b) == IF a >= b THEN a - b ELSE b - a

PredicateCalled == ret.op = "check_port_section_conflicts"

\* C16: check_port_section_conflicts(p, [q]) is true exactly when |p - q| <= 10,
\* and swapping p and q gives the same result.
C16_PredicateSymmetricDistance ==
    PredicateCalled =>
        /\ (ret.res = "true") <=> (Distance(probe.port_section, probe.cached_port) <= BlockWidth)
        /\ check_port_section_conflicts(probe.port_section, {probe.cached_port})
             <=> check_port_section_conflicts(probe.cached_port, {probe.port_section})

\* the predicate was called on two sections exactly 10 apart, the smaller first
C16_Witness ==
    /\ PredicateCalled
    /\ ret.num = probe.port_section
    /\ probe.cached_port = probe.port_section + BlockWidth
    /\ ret.res = "true"

(***************************************************************************)
(* Properties of eliminate_port_collisions                                 *)
(***************************************************************************)
Reconciled == ret.op = "eliminate_port_collisions" /\ ret.res = "Ok"

\* the sections of the cached groups with another name than the caller's
OtherCachedPorts ==
    {sg.port_section : sg \in {c \in CachedGroups : c.prefix # probe.group.prefix}}

\* C17: after a successful eliminate_port_collisions the group's section
\* conflicts with no other cached group's section; a section that did not
\* conflict is unchanged; a rerolled section lies in [25566, 26001).
C17_ReconcilePostcondition ==
    Reconciled =>
        /\ ~check_port_section_conflicts(ret.num, OtherCachedPorts)
        /\ ~check_port_section_conflicts(probe.group.port_section, OtherCachedPorts)
              => ret.num = probe.group.port_section
        /\ ret.num # probe.group.port_section
              => (RerollLo <= ret.num /\ ret.num < PortHi)

\* C18: eliminate_port_collisions on a group that is cached with the same
\* section and conflicts with no other cached group leaves the section unchanged.
C18_ReconcileExcludesSelf ==
    ( /\ Reconciled
      /\ \E c \in CachedGroups : /\ c.prefix = probe.group.prefix
                                  /\ c.port_section = probe.group.port_section
      /\ ~check_port_section_conflicts(probe.group.port_section, OtherCachedPorts) )
    => ret.num = probe.group.port_section

\* the sections of the cached groups other than the one in the loop
OtherPortsInLoop ==
    {sg.port_section : sg \in {c \in CachedGroups : c.prefix # probe.group.prefix}}

\* every cached hash parses and some section of the reroll range conflicts
\* with no other cached group
FreeSectionExists ==
    /\ probe # NoProbe /\ probe.pc = "test"
    /\ \A q \in DOMAIN hashes : WellFormed(hashes, q)
    /\ \E q \in RerollRange : ~check_port_section_conflicts(q, OtherPortsInLoop)

LoopReturned == probe # NoProbe /\ probe.pc = "returned" /\ ret.res = "Ok"

\* C37: whenever some section of [25566, 26001) conflicts with no other cached
\* group, the reroll loop of reset_port_section_if_invalid stops, under a fair
\* random choice, and success is returned.
C37_ReconcileTerminates == FreeSectionExists ~> LoopReturned

\* the hash of the prefix the call was made for, as the cache holds it
CachedForProbe == get_server_group(hashes, probe.group.prefix)

\* C39: load_existing_cache replaces the group by the cached group when a
\* hash of its prefix is cached, and returns normally with the group
\* unchanged when none is cached or it does not parse; to_server_group then
\* returns the template group, with a section that conflicts with no cached
\* section.
C39_LoadFallsBack ==
    /\ ret.op = "load_existing_cache" =>
          /\ ret.res = "Ok"
          /\ probe.loaded = IF CachedForProbe.kind = "Ok" THEN CachedForProbe.group
                             ELSE probe.group
    /\ (ret.op = "to_server_group" /\ CachedForProbe.kind # "Ok"
          /\ \A q \in DOMAIN hashes \ {probe.group.prefix} : WellFormed(hashes, q)) =>
          /\ ret.res = "Ok"
          /\ [probe.loaded EXCEPT !.port_section = probe.group.port_section] = probe.group
          /\ ~check_port_section_conflicts(probe.loaded.port_section,
                                            {c.port_section : c \in CachedGroups})

(***************************************************************************)
(* Properties of create run by two contexts                                *)
(***************************************************************************)
BothReturned == ctxs # NoContexts /\ \A i \in Contexts : ctxs[i].pc = "done"

\* C19: when two contexts run create for one prefix with their commands
\* interleaved, both return Ok, the hash of the prefix exists and is the
\* complete field map of one of the two callers, and the prefix is in the set.
C19_ConcurrentCreate ==
    BothReturned =>
        /\ \A i \in Contexts : ctxs[i].res = "Ok"
        /\ MB \in DOMAIN hashes
        /\ \E i \in Contexts : hashes[MB] = to_hashmap(ctxs[i].group)
        /\ MB \in sgset

\* both contexts wrote the hash, with different sections and different ram
C19_Witness ==
    /\ BothReturned
    /\ \A i \in Contexts : ctxs[i].wrote
    /\ ctxs[1].group.port_section # ctxs[2].group.port_section
    /\ ctxs[1].group.ram # ctxs[2].group.ram

\* C32: when two contexts run create for two different groups, neither cached,
\* with their commands interleaved, the two groups as cached afterwards do not
\* have port sections equal or within 10 of each other.
C32_ConcurrentCreatePorts ==
    (BothReturned /\ \A i \in Contexts : ctxs[i].res = "Ok") =>
        \A a \in CachedGroups, b \in CachedGroups :
            (a.prefix = MB /\ b.prefix = SB) => ~Within10(a.port_section, b.port_section)

(***************************************************************************)
(* Properties of the codec                                                 *)
(***************************************************************************)
Parsed == probe # NoProbe /\ probe.parsed # NotParsed

\* C25: for every valid group G, from_hashmap(to_hashmap(G)) succeeds and
\* equals G field for field.
C25_CodecRoundTrip ==
    (Parsed /\ probe.group # NoGroup) =>
        /\ probe.parsed.kind = "Ok"
        /\ probe.parsed.group = probe.group

\* a dashed name, the largest ram and cpu, region ALL and a host went round
C25_Witness ==
    /\ Parsed /\ probe.group # NoGroup
    /\ probe.group.name = C_4 /\ probe.group.ram = U16Max /\ probe.group.cpu = U8Max
    /\ probe.group.region = "ALL" /\ probe.group.host # <<>>
    /\ probe.parsed.kind = "Ok"

\* C26: from_hashmap reports every malformed map as a parsing error and never
\* aborts; every group it returns has name equal to prefix.
C26_MalformedIsError ==
    Parsed =>
        /\ probe.parsed.kind # "panic"
        /\ probe.group = NoGroup => probe.parsed.kind = "Err"
        /\ probe.parsed.kind = "Ok" => probe.parsed.group.name = probe.parsed.group.prefix

(***************************************************************************)
(* Properties of status parsing and the sweep                              *)
(***************************************************************************)
Swept == ret.op = "get_empty_servers"

CachedStatuses == {try_from(status[k]) : k \in DOMAIN status}

C30_RangeChecked ==
    (Parsed /\ probe.parsed.kind = "Ok") =>
        /\ probe.map["_playerCount"].v \in 0..U8Max
        /\ probe.map["_port"].v \in 0..U16Max
        /\ probe.map["_startUpDate"].v >= 0
        /\ probe.map["_currentTime"].v >= 0

(***************************************************************************)
(* Properties of launch_server                                             *)
(***************************************************************************)
\* C28: launch_server always returns: Ok once the status of "{prefix}-{n}"
\* is in the cache, MinecraftServerNotRunning after 40 seconds without it.
C28_LaunchReturns ==
    ret.op = "launch_server" =>
        /\ ret.res \in {"Ok", "MinecraftServerNotRunning"}
        /\ probe.server_name = GroupNamed(ret.group).prefix \o <<"-">> \o ToDecimal(ret.num)

(***************************************************************************)
(* Properties of GameOptions::try_from                                     *)
(***************************************************************************)
OptionsBuilt == ret.op = "try_from"

\* C29: when the group of the game's prefix is cached, try_from returns its
\* cached section and neither fails nor loops on the allocator; when it is
\* not cached, the section returned lies in [25565, 26001) and conflicts
\* with no cached group's section.
C29_OptionsPort ==
    OptionsBuilt =>
        /\ (ret.group \in DOMAIN hashes /\ WellFormed(hashes, ret.group)) =>
              /\ ret.res = "Ok"
              /\ ret.num = get_server_group(hashes, ret.group).group.port_section
        /\ (~(ret.group \in DOMAIN hashes /\ WellFormed(hashes, ret.group)) /\ ret.res = "Ok") =>
              /\ PortLo <= ret.num /\ ret.num < PortHi
              /\ ~check_port_section_conflicts(ret.num,
                                                {sg.port_section : sg \in CachedGroups})

====
